---- MODULE Spec2Model ----
(***************************************************************************)
(* Forensic identity and field-provenance resolution of Scout.app:         *)
(* the normalizers and the identity resolver of src/lib/gemini.ts, the     *)
(* merge helpers and the HTML scraper merge of src/unnamed/part_003 and    *)
(* the two deep-scan pipelines (src/unnamed/part_005, src/lib/gemini.ts).  *)
(*                                                                         *)
(* Strings are sequences of symbols. A symbol is either a character the    *)
(* code treats specially (a space, "/", "?", "#", "@", a scheme, the www.  *)
(* prefix) or an opaque run of ordinary characters ("acme.com"). The empty *)
(* sequence stands for '', undefined and null alike: the code tests all    *)
(* three with the same truthiness checks.                                  *)
(***************************************************************************)
EXTENDS Integers, Sequences, FiniteSets, TLC

\* ------------------------------------------------------------------ bounds

\* How many slashes may trail an Instagram handle handed to the resolver.
MaxTrail == 1

\* ------------------------------------------------------------------ strings

Empty == <<>>

Str(sym) == <<sym>>

\* String.prototype.toLowerCase on one symbol.
LowerSym(c) ==
  CASE c = "HTTP://"  -> "http://"
    [] c = "HTTPS://" -> "https://"
    [] c = "WWW."     -> "www."
    [] c = "ACME.COM" -> "acme.com"
    [] c = "BETA.IO"  -> "beta.io"
    [] c = "ACME"     -> "acme"
    [] c = "Acme"     -> "acme"
    [] c = "Zeta"     -> "zeta"
    [] c = "1 Main St" -> "1 main st"
    [] c = "INSTAGRAM.COM" -> "instagram.com"
    [] OTHER          -> c

toLowerCase(s) == [i \in DOMAIN s |-> LowerSym(s[i])]

RECURSIVE trimStart(_)
trimStart(s) ==
  IF s # Empty /\ Head(s) = " " THEN trimStart(Tail(s)) ELSE s

RECURSIVE trimEnd(_)
trimEnd(s) ==
  IF s # Empty /\ s[Len(s)] = " " THEN trimEnd(SubSeq(s, 1, Len(s) - 1)) ELSE s

\* String.prototype.trim
trim(s) == trimEnd(trimStart(s))

\* ------------------------------------------------------------------ normalizers

\* clean.replace(/^@/, '')
StripLeadingAt(s) == IF s # Empty /\ Head(s) = "@" THEN Tail(s) ELSE s

\* clean.replace(/\/+$/, '')
RECURSIVE StripTrailingSlashes(_)
StripTrailingSlashes(s) ==
  IF s # Empty /\ s[Len(s)] = "/"
    THEN StripTrailingSlashes(SubSeq(s, 1, Len(s) - 1))
    ELSE s

normalizeHandle(handle) ==
  IF handle = Empty THEN Empty
  ELSE LET clean == trim(handle) IN
       IF clean = Empty THEN Empty
       ELSE StripTrailingSlashes(StripLeadingAt(clean))

\* domain.replace(/^(https?:\/\/)?(www\.)?/, ''): the pattern is case-sensitive
\* and is applied to the lowercased string.
StripSchemeAndWww(s) ==
  LET s1 == IF s # Empty /\ Head(s) \in {"http://", "https://"} THEN Tail(s) ELSE s
  IN IF s1 # Empty /\ Head(s1) = "www." THEN Tail(s1) ELSE s1

\* domain.split(/[/?#]/)[0]
RECURSIVE UpToSeparator(_)
UpToSeparator(s) ==
  IF s = Empty \/ Head(s) \in {"/", "?", "#"} THEN Empty
  ELSE <<Head(s)>> \o UpToSeparator(Tail(s))

normalizeDomain(url) ==
  IF url = Empty THEN Empty
  ELSE LET domain == trim(toLowerCase(url)) IN
       IF domain = Empty THEN Empty
       ELSE UpToSeparator(StripSchemeAndWww(domain))

normalizeSocial(val) ==
  IF val = Empty THEN Empty ELSE toLowerCase(normalizeHandle(val))

\* ------------------------------------------------------------------ identity resolver

DomKey(domain) == <<"dom:">> \o domain
IgKey(ig) == <<"ig:">> \o ig
NameKey(name, loc) == <<"name:">> \o name \o <<"|">> \o loc

\* The fallback branch left out.
NeedsFallbackNever(keys) == FALSE

\* The fallback key pushed whether or not another key was produced.
NeedsFallbackAlways(keys) == TRUE

\* keys.length === 0 guards the fallback key.
NeedsFallback(keys) == Len(keys) = 0

\* The fallback key built from the raw name and address.
FallbackKeyRaw(item) == NameKey(item.companyName, item.address)

\* `name:${name}|${loc}` of the lowercased, trimmed name and address.
FallbackKey(item) ==
  NameKey(trim(toLowerCase(item.companyName)), trim(toLowerCase(item.address)))

getIdentityKeys(item) ==
  LET domain == normalizeDomain(item.website)
      k1 == IF domain # Empty THEN <<DomKey(domain)>> ELSE <<>>
      ig == normalizeSocial(item.socialLinks.instagram)
      k2 == IF ig # Empty THEN k1 \o <<IgKey(ig)>> ELSE k1
  IN IF NeedsFallback(k2)
       THEN k2 \o <<FallbackKey(item)>>
       ELSE k2

\* ------------------------------------------------------------------ URL normalizer

IsScheme(c) == c \in {"http://", "https://", "HTTP://", "HTTPS://"}

IsTrackingParam(c) == c \in {"utm_source=x", "fbclid=1", "gclid=1"}

\* u.searchParams.delete(p) for the tracking parameters (one-parameter queries).
RECURSIVE StripTracking(_)
StripTracking(s) ==
  IF s = Empty THEN Empty
  ELSE IF Len(s) >= 2 /\ Head(s) = "?" /\ IsTrackingParam(s[2])
    THEN StripTracking(SubSeq(s, 3, Len(s)))
    ELSE <<Head(s)>> \o StripTracking(Tail(s))

\* new URL(clean) throws on an empty host or a blank inside the host.
UrlParses(clean) ==
  LET host == UpToSeparator(Tail(clean))
  IN host # Empty /\ \A k \in 1..Len(host) : host[k] # " "

\* u.toString(): scheme and host in lower case, "/" for an empty path.
UrlToString(clean) ==
  LET rest == Tail(clean)
      host == UpToSeparator(rest)
      after == SubSeq(rest, Len(host) + 1, Len(rest))
      path == IF after # Empty /\ Head(after) = "/" THEN after ELSE <<"/">> \o after
  IN <<LowerSym(Head(clean))>> \o toLowerCase(host) \o StripTracking(path)

normalizeUrl(url) ==
  IF url = Empty THEN Empty
  ELSE LET trimmed == trim(url) IN
       IF trimmed = Empty THEN Empty
       ELSE LET clean == IF IsScheme(Head(trimmed)) THEN trimmed
                         ELSE <<"https://">> \o trimmed
            IN IF UrlParses(clean) THEN UrlToString(clean) ELSE clean

\* ------------------------------------------------------------------ evidence mapper

\* Confidences are hundredths: 0.9 is 90.
HighTrustConfidence == 90
KnownSourceConfidence == 70
UnknownConfidence == 50

\* No source recognised.
KnownSourcesNone == {}

KnownSources == {"official_website", "google_business", "directory", "social", "manual"}

\* An absent ContactField (undefined).
NoField == [value |-> Empty, source |-> "none", confidence |-> 0, sourceUrl |-> Empty]

\* An absent raw evidence object. hasConfidence is typeof confidence === 'number';
\* textConfidence is a confidence that is a non-empty string.
NoEvidence == [given |-> FALSE, source |-> "", hasConfidence |-> FALSE, textConfidence |-> FALSE,
               confidence |-> 0, sourceUrl |-> Empty]

Min(a, b) == IF a < b THEN a ELSE b
Max(a, b) == IF a > b THEN a ELSE b

\* The confidence taken as it comes.
ClampNone(c) == c

\* Math.min(1, Math.max(0, confidence))
Clamp(c) == Min(100, Max(0, c))

mapForensicField(val, evidence) ==
  LET finalValue == trim(val) IN
  IF finalValue = Empty THEN NoField
  ELSE LET source == IF evidence.given /\ evidence.source \in KnownSources
                       THEN evidence.source ELSE "unknown"
           numeric == evidence.given /\ evidence.hasConfidence
           confidence ==
             IF numeric THEN evidence.confidence
             ELSE IF source # "unknown"
               THEN (IF source \in {"official_website", "google_business"}
                       THEN HighTrustConfidence ELSE KnownSourceConfidence)
               ELSE UnknownConfidence
       IN [value |-> finalValue, source |-> source, confidence |-> Clamp(confidence),
           sourceUrl |-> IF evidence.given THEN normalizeUrl(evidence.sourceUrl) ELSE Empty]

\* ------------------------------------------------------------------ discovery mapping

IntelWebsiteEmailConfidence == 90
IntelSocialConfidence == 70
IntelDefaultConfidence == 50

\* evidence?.source?.replace(/_/g, ' ') || "Public Discovery"
SpacedSource(src) ==
  CASE src = "official_website" -> "official website"
    [] src = "google_business"  -> "google business"
    [] OTHER                    -> src

IntelSource(evidence) ==
  IF evidence.given /\ evidence.source # ""
    THEN <<SpacedSource(evidence.source)>> ELSE <<"Public Discovery">>

IntelConfidence(evidence, evidenceKey) ==
  IF evidence.given /\ evidence.hasConfidence THEN evidence.confidence
  ELSE IF evidenceKey \in {"website", "email"} THEN IntelWebsiteEmailConfidence
  ELSE IF evidenceKey \in {"instagram", "linkedIn", "facebook", "twitter"}
    THEN IntelSocialConfidence
  ELSE IntelDefaultConfidence

\* addIntelligence: appends one entry unless the value is empty; the entry is
\* primary when no entry of its type precedes it.
addIntelligence(enriched, type, value, evidence, evidenceKey) ==
  IF value = Empty THEN enriched
  ELSE Append(enriched,
         [id |-> <<"intel", Len(enriched) + 1>>,
          type |-> type,
          value |-> value,
          confidence |-> Clamp(IntelConfidence(evidence, evidenceKey)),
          source |-> IntelSource(evidence),
          lastVerified |-> TRUE,
          isPrimary |-> \A k \in 1..Len(enriched) : enriched[k].type # type])

LatestSignalDefaultConfidence == 70

\* An absent latestSignalEvidence (undefined).
NoSignalEvidence == [source |-> "none", numeric |-> TRUE, confidence |-> 0, sourceUrl |-> Empty]

\* lead.latestSignalEvidence: the source is taken as it comes, the confidence
\* too unless it is falsy (absent or 0); numeric tells whether it is a number.
latestSignalEvidence(signal) ==
  IF ~signal.given THEN NoSignalEvidence
  ELSE [source |-> IF signal.source # "" THEN signal.source ELSE "unknown",
        numeric |-> ~signal.textConfidence,
        confidence |-> IF signal.hasConfidence /\ signal.confidence # 0
                         THEN signal.confidence
                         ELSE IF signal.textConfidence THEN 0
                         ELSE LatestSignalDefaultConfidence,
        sourceUrl |-> normalizeUrl(signal.sourceUrl)]

mapRawLeadToDiscovered(raw, n) ==
  LET ce == raw.contactEvidence
      website == normalizeUrl(raw.website)
      email == trim(raw.email)
      phone == trim(raw.phone)
      links == [instagram |-> normalizeHandle(raw.socialLinks.instagram),
                linkedIn  |-> normalizeUrl(raw.socialLinks.linkedIn),
                linkedin  |-> Empty,
                facebook  |-> normalizeUrl(raw.socialLinks.facebook),
                twitter   |-> normalizeHandle(raw.socialLinks.twitter)]
      e1 == addIntelligence(<<>>, "OTHER", website, ce.website, "website")
      e2 == addIntelligence(e1, "EMAIL", email, ce.email, "email")
      e3 == addIntelligence(e2, "PHONE", phone, ce.phone, "phone")
      e4 == addIntelligence(e3, "INSTAGRAM", links.instagram, ce.instagram, "instagram")
      e5 == addIntelligence(e4, "LINKEDIN", links.linkedIn, ce.linkedIn, "linkedIn")
      e6 == addIntelligence(e5, "TWITTER", links.twitter, ce.twitter, "twitter")
  IN [id |-> <<"prospect", n>>,
      companyName |-> raw.companyName,
      description |-> IF raw.description # Empty THEN raw.description
                      ELSE raw.matchReasoning,
      website |-> website,
      email |-> email,
      phone |-> phone,
      address |-> trim(raw.address),
      socialLinks |-> links,
      emailField |-> mapForensicField(raw.email, ce.email),
      phoneField |-> mapForensicField(raw.phone, ce.phone),
      addressField |-> mapForensicField(raw.address, ce.address),
      websiteField |-> mapForensicField(raw.website, ce.website),
      instagramField |-> mapForensicField(raw.socialLinks.instagram, ce.instagram),
      linkedInField |-> mapForensicField(raw.socialLinks.linkedIn, ce.linkedIn),
      twitterField |-> mapForensicField(raw.socialLinks.twitter, ce.twitter),
      latestSignalEvidence |-> latestSignalEvidence(ce.latestSignal),
      enrichedContacts |-> e6,
      verificationStatus |-> "PENDING"]

\* ------------------------------------------------------------------ enrichment merge

ApolloOrgConfidence == 90
ApolloVerifiedEmailConfidence == 95
ApolloUnverifiedEmailConfidence == 75
ApolloPhoneConfidence == 80
ApolloLinkedInConfidence == 90
ScraperConfidence == 85

\* No organization (null / undefined).
NullOrg == [isNull |-> TRUE, phone |-> Empty, street_address |-> Empty, city |-> Empty,
            state |-> Empty, postal_code |-> Empty, country |-> Empty,
            linkedin_url |-> Empty, twitter_url |-> Empty, facebook_url |-> Empty,
            short_description |-> Empty]

\* [..].filter(Boolean).join(', ')
RECURSIVE JoinNonEmpty(_)
JoinNonEmpty(parts) ==
  IF parts = <<>> THEN Empty
  ELSE LET rest == JoinNonEmpty(Tail(parts)) IN
       IF Head(parts) = Empty THEN rest
       ELSE IF rest = Empty THEN Head(parts)
       ELSE Head(parts) \o <<", ">> \o rest

DirectoryEvidence(value, confidence, sourceUrl) ==
  [value |-> value, source |-> "directory", confidence |-> confidence,
   sourceUrl |-> sourceUrl]

\* The supplemental text alone.
DescriptionReplaced(description, text) == <<"\n\nCompany Info: ">> \o text

\* `${description}\n\nCompany Info: ${org.short_description}`
DescriptionAppended(description, text) ==
  description \o <<"\n\nCompany Info: ">> \o text

\* The organization merge the two pipelines share; they differ in sourceUrl.
OrgMerge(lead, org, sourceUrl) ==
  LET l1 == IF org.phone # Empty /\ lead.phone = Empty
              THEN [lead EXCEPT !.phone = org.phone,
                                !.phoneField = DirectoryEvidence(org.phone, ApolloOrgConfidence, sourceUrl)]
              ELSE lead
      fullAddress == JoinNonEmpty(<<org.street_address, org.city, org.state,
                                    org.postal_code, org.country>>)
      l2 == IF org.street_address # Empty /\ l1.address = Empty
              THEN [l1 EXCEPT !.address = fullAddress,
                              !.addressField = DirectoryEvidence(fullAddress, ApolloOrgConfidence, sourceUrl)]
              ELSE l1
      l3 == IF org.linkedin_url # Empty /\ l2.socialLinks.linkedIn = Empty
              THEN [l2 EXCEPT !.socialLinks.linkedIn = org.linkedin_url,
                              !.socialLinks.linkedin = org.linkedin_url,
                              !.linkedInField = DirectoryEvidence(org.linkedin_url, ApolloOrgConfidence, sourceUrl)]
              ELSE l2
      l4 == IF org.twitter_url # Empty /\ l3.socialLinks.twitter = Empty
              THEN [l3 EXCEPT !.socialLinks.twitter = org.twitter_url,
                              !.twitterField = DirectoryEvidence(org.twitter_url, ApolloOrgConfidence, sourceUrl)]
              ELSE l3
      l5 == IF org.facebook_url # Empty /\ l4.socialLinks.facebook = Empty
              THEN [l4 EXCEPT !.socialLinks.facebook = org.facebook_url]
              ELSE l4
  IN IF org.short_description # Empty
       THEN [l5 EXCEPT !.description =
               DescriptionAppended(l5.description, org.short_description)]
       ELSE l5

mergeApolloOrgData(lead, org) == OrgMerge(lead, org, <<"Apollo.io">>)

EmailConfidence(person) ==
  IF person.email_status = "verified" THEN ApolloVerifiedEmailConfidence
  ELSE ApolloUnverifiedEmailConfidence

\* `Apollo.io - ${person.title || 'Contact'}`
ApolloSource(person) ==
  <<"Apollo.io - ">> \o (IF person.title # Empty THEN person.title ELSE <<"Contact">>)

\* The PHONE entries of one person; k is the index in phone_numbers (from 1).
RECURSIVE PhoneContacts(_, _, _)
PhoneContacts(person, personIndex, k) ==
  IF k > Len(person.phone_numbers) THEN <<>>
  ELSE (IF person.phone_numbers[k].sanitized_number # Empty
          THEN <<[id |-> <<"apollo-phone", personIndex - 1, k - 1>>,
                  type |-> "PHONE",
                  value |-> person.phone_numbers[k].sanitized_number,
                  confidence |-> ApolloPhoneConfidence,
                  source |-> ApolloSource(person),
                  lastVerified |-> FALSE,
                  isPrimary |-> personIndex = 1 /\ k = 1]>>
          ELSE <<>>)
       \o PhoneContacts(person, personIndex, k + 1)

\* The entries one person contributes; personIndex counts from 1 (index 0).
PersonContacts(person, personIndex) ==
  (IF person.email # Empty
     THEN <<[id |-> <<"apollo-email", personIndex - 1>>,
             type |-> "EMAIL",
             value |-> person.email,
             confidence |-> EmailConfidence(person),
             source |-> ApolloSource(person),
             lastVerified |-> TRUE,
             isPrimary |-> personIndex = 1]>>
     ELSE <<>>)
  \o PhoneContacts(person, personIndex, 1)
  \o (IF person.linkedin_url # Empty
        THEN <<[id |-> <<"apollo-linkedin", personIndex - 1>>,
                type |-> "LINKEDIN",
                value |-> person.linkedin_url,
                confidence |-> ApolloLinkedInConfidence,
                source |-> ApolloSource(person),
                lastVerified |-> FALSE,
                isPrimary |-> personIndex = 1]>>
        ELSE <<>>)

RECURSIVE PeopleContacts(_, _)
PeopleContacts(people, personIndex) ==
  IF personIndex > Len(people) THEN <<>>
  ELSE PersonContacts(people[personIndex], personIndex)
         \o PeopleContacts(people, personIndex + 1)

\* The scalar email set from the last person who has one.
PrimaryEmailMergeAnyPerson(people, lead, sourceUrl) ==
  LET withEmail == {k \in 1..Len(people) : people[k].email # Empty} IN
  IF withEmail # {} /\ lead.email = Empty
    THEN LET k == CHOOSE x \in withEmail : \A y \in withEmail : y <= x
         IN [lead EXCEPT !.email = people[k].email,
                         !.emailField = DirectoryEvidence(people[k].email,
                                          EmailConfidence(people[k]), sourceUrl)]
    ELSE lead

\* The scalar email is set from the person at index 0 when the lead has none.
PrimaryEmailMerge(people, lead, sourceUrl) ==
  IF Len(people) > 0 /\ people[1].email # Empty /\ lead.email = Empty
    THEN [lead EXCEPT !.email = people[1].email,
                      !.emailField = DirectoryEvidence(people[1].email,
                                       EmailConfidence(people[1]), sourceUrl)]
    ELSE lead

convertApolloContacts(people, lead) ==
  [lead |-> PrimaryEmailMerge(people, lead, <<"Apollo.io">>),
   contacts |-> PeopleContacts(people, 1)]

\* if (!apolloResult.success) return lead
EnrichmentUnusable(apolloResult) == ~apolloResult.success

\* enrichLeadWithApollo once fullEnrichment has resolved with apolloResult.
enrichLeadWithApollo(lead, apolloResult) ==
  IF lead.website = Empty THEN lead
  ELSE IF EnrichmentUnusable(apolloResult) THEN lead
  ELSE LET e1 == IF ~apolloResult.organization.isNull
                   THEN mergeApolloOrgData(lead, apolloResult.organization)
                   ELSE lead
       IN IF Len(apolloResult.people) > 0
            THEN LET c == convertApolloContacts(apolloResult.people, e1)
                 IN [c.lead EXCEPT !.enrichedContacts = c.lead.enrichedContacts \o c.contacts]
            ELSE e1

\* The enrichment step written out inside discoverProspectsDeepScan.
InlineEnrich(lead, apolloResult) ==
  IF lead.website = Empty \/ trim(lead.website) = Empty THEN lead
  ELSE IF EnrichmentUnusable(apolloResult) THEN lead
  ELSE LET e1 == IF ~apolloResult.organization.isNull
                   THEN OrgMerge(lead, apolloResult.organization,
                                 <<"Apollo.io Organization Enrichment">>)
                   ELSE lead
       IN IF Len(apolloResult.people) > 0
            THEN LET e2 == PrimaryEmailMerge(apolloResult.people, e1,
                                             <<"Apollo.io People Search">>)
                 IN [e2 EXCEPT !.enrichedContacts =
                       e2.enrichedContacts \o PeopleContacts(apolloResult.people, 1)]
            ELSE e1

\* ------------------------------------------------------------------ enrichment client

\* What a lookup does: it throws (timeout, network error, non-2xx) or answers.
Thrown == "thrown"
Answered == "answered"

\* enrichCompany: the organization of the response, null on any failure.
enrichCompany(outcome) ==
  IF outcome.kind = Thrown THEN NullOrg ELSE outcome.organization

\* findDecisionMakers: the people of the response, [] on any failure.
findDecisionMakers(outcome) ==
  IF outcome.kind = Thrown THEN <<>> ELSE outcome.people

\* fullEnrichment once both lookups have settled.
fullEnrichment(domain, organization, people) ==
  IF domain = Empty \/ trim(domain) = Empty
    THEN [success |-> FALSE, organization |-> NullOrg, people |-> <<>>]
    ELSE [success |-> ~organization.isNull \/ Len(people) > 0,
          organization |-> organization,
          people |-> people]

\* ------------------------------------------------------------------ scraper merge

NoLinks == [instagram |-> Empty, facebook |-> Empty, twitter |-> Empty,
            linkedIn |-> Empty, youtube |-> Empty, tiktok |-> Empty]

\* scrapeSocialLinks: the links found in the page, {} on any failure.
scrapeSocialLinks(websiteUrl, outcome) ==
  IF websiteUrl = Empty \/ trim(websiteUrl) = Empty THEN NoLinks
  ELSE IF outcome.kind = Thrown THEN NoLinks
  ELSE outcome.links

\* The string preferred from the right.
OrRight(a, b) == IF b # Empty THEN b ELSE a

\* a || b on strings
Or(a, b) == IF a # Empty THEN a ELSE b

\* obj.k, undefined when the object has no such key
Get(obj, k) == IF k \in DOMAIN obj THEN obj[k] ELSE Empty

\* The scraped value wins over the existing one.
mergeSocialLinksScrapedFirst(existing, scraped) ==
  [instagram |-> Or(scraped.instagram, existing.instagram),
   facebook  |-> Or(scraped.facebook, existing.facebook),
   twitter   |-> Or(scraped.twitter, existing.twitter),
   linkedIn  |-> Or(scraped.linkedIn, existing.linkedIn),
   youtube   |-> Or(Get(existing, "youtube"), scraped.youtube),
   tiktok    |-> Or(Get(existing, "tiktok"), scraped.tiktok)]

mergeSocialLinks(existing, scraped) ==
  [instagram |-> Or(existing.instagram, scraped.instagram),
   facebook  |-> Or(existing.facebook, scraped.facebook),
   twitter   |-> Or(existing.twitter, scraped.twitter),
   linkedIn  |-> Or(existing.linkedIn, scraped.linkedIn),
   youtube   |-> Or(Get(existing, "youtube"), scraped.youtube),
   tiktok    |-> Or(Get(existing, "tiktok"), scraped.tiktok)]

\* The guard dropped: the merge runs on an empty scrape too.
ScrapeFoundNothingNever(scraped) == FALSE

\* Object.keys(scrapedLinks).length === 0
ScrapeFoundNothing(scraped) ==
  /\ scraped.instagram = Empty /\ scraped.facebook = Empty /\ scraped.twitter = Empty
  /\ scraped.linkedIn = Empty /\ scraped.youtube = Empty /\ scraped.tiktok = Empty

WebsiteEvidence(value, sourceUrl) ==
  [value |-> value, source |-> "official_website", confidence |-> ScraperConfidence,
   sourceUrl |-> sourceUrl]

\* The object both pipelines build from the merged links.
ScrapeMerge(lead, scraped, sourceUrl) ==
  LET mergedLinks == mergeSocialLinks(lead.socialLinks, scraped)
  IN [lead EXCEPT
        !.socialLinks = [instagram |-> mergedLinks.instagram,
                         linkedIn  |-> mergedLinks.linkedIn,
                         linkedin  |-> mergedLinks.linkedIn,
                         facebook  |-> mergedLinks.facebook,
                         twitter   |-> mergedLinks.twitter],
        !.instagramField = IF mergedLinks.instagram # Empty
                             THEN WebsiteEvidence(mergedLinks.instagram, sourceUrl)
                             ELSE lead.instagramField,
        !.linkedInField = IF mergedLinks.linkedIn # Empty
                            THEN WebsiteEvidence(mergedLinks.linkedIn, sourceUrl)
                            ELSE lead.linkedInField,
        !.twitterField = IF mergedLinks.twitter # Empty
                           THEN WebsiteEvidence(mergedLinks.twitter, sourceUrl)
                           ELSE lead.twitterField]

\* Step 3 of discoverProspectsDeepScan (gemini-helpers pipeline), per lead.
HelperScrapeStep(lead, scraped) ==
  IF lead.website = Empty THEN lead
  ELSE IF ScrapeFoundNothing(scraped) THEN lead
  ELSE ScrapeMerge(lead, scraped, lead.website)

hasSocialLinks(lead) ==
  \/ lead.socialLinks.instagram # Empty
  \/ lead.socialLinks.facebook # Empty
  \/ lead.socialLinks.twitter # Empty
  \/ lead.socialLinks.linkedIn # Empty

\* The scraping fallback inside discoverProspects, per lead.
InlineScrapeStep(lead, scraped) ==
  IF lead.website = Empty THEN lead
  ELSE IF hasSocialLinks(lead) THEN lead
  ELSE IF ~ScrapeFoundNothing(scraped)
    THEN ScrapeMerge(lead, scraped, lead.website \o <<" (HTML Scraper)">>)
    ELSE lead

\* ------------------------------------------------------------------ state

VARIABLES
  item,    \* identity resolver: the two records handed to getIdentityKeys
  truth,   \* identity resolver: the business each record was rendered from
  keys,    \* identity resolver: the key list returned for each record
  kpc,     \* identity resolver: "idle" | "input" | "done"
  variant,      \* deep scan: "helpers" (part_005) | "inline" (lib/gemini.ts) | "none"
  apolloConfigured, \* deep scan: what isApolloConfigured() answers
  phase,        \* deep scan: "idle" | "start" | "first" | "second" | "done"
  mappedLeads,  \* deep scan: the leads mapRawLeadToDiscovered built
  firstPass,    \* deep scan: the array the first Promise.all resolves to
  secondPass,   \* deep scan: the array the second Promise.all resolves to
  promise,      \* deep scan: per lead, "pending" | "settled" in the running pass
  orgGot,       \* deep scan: per lead, what enrichCompany returned
  peopleGot,    \* deep scan: per lead, what findDecisionMakers returned
  scrapeGot,    \* deep scan: per lead, what scrapeSocialLinks returned
  overtaken,    \* deep scan: a lookup finished before one that was started earlier
  mfVal,        \* field mapper: the value handed to mapForensicField
  mfEvidence,   \* field mapper: the raw evidence handed to mapForensicField
  mfResult,     \* field mapper: what mapForensicField returned
  mfpc,         \* field mapper: "idle" | "input" | "done"
  parsed,       \* discovery: the raw lead parsed from the model's answer
  discovered,   \* discovery: the lead mapRawLeadToDiscovered built from it
  dpc,          \* discovery: "idle" | "input" | "done"
  verifier,        \* verification: "scraping" (part_005) | "plain" (lib/gemini.ts) | "none"
  discoveryLeads,  \* verification: state.currentDiscoveryLeads
  selectedProspect,\* verification: the lead shown in the dossier dialog, <<>> when closed
  passes,          \* verification: the handleVerifyLead calls awaiting their result
  requested,       \* verification: how many calls have been started
  pipeline,        \* verification: the sponsors incorporated, each with its deal's dossier
  vault,           \* verification: state.vault, the leads saved for later
  lastPass,        \* verification: the call that returned last, with what it got
  hostInput,       \* normalizeDomain: the string handed in
  normalized,      \* normalizeDomain: its result
  renormalized,    \* normalizeDomain: the result of normalizing that result
  npc,             \* normalizeDomain: "idle" | "input" | "once" | "twice"
  reply,           \* extractJson: the text the collaborator returned
  caller,          \* extractJson: "discoverProspects" | "verifyLeadForensically" | "none"
  extracted,       \* extractJson: what extractJson returned
  returned,        \* extractJson: what the caller returned
  xpc,             \* extractJson: "idle" | "input" | "extracted" | "done"
  heap,            \* merge helpers: the objects in memory, by address
  mergeArgs,       \* merge helpers: the call and the addresses of its arguments
  mergeOut,        \* merge helpers: the address returned
  hpc              \* merge helpers: "idle" | "input" | "done"

keyVars == <<item, truth, keys, kpc>>

scanVars == <<variant, apolloConfigured, phase, mappedLeads, firstPass, secondPass, promise,
              orgGot, peopleGot, scrapeGot, overtaken>>

fieldVars == <<mfVal, mfEvidence, mfResult, mfpc>>

discoveryVars == <<parsed, discovered, dpc>>

verifyVars == <<verifier, discoveryLeads, selectedProspect, passes, requested, pipeline,
                vault, lastPass>>

domainVars == <<hostInput, normalized, renormalized, npc>>

extractVars == <<reply, caller, extracted, returned, xpc>>

heapVars == <<heap, mergeArgs, mergeOut, hpc>>

vars == <<item, truth, keys, kpc, variant, apolloConfigured, phase, mappedLeads, firstPass, secondPass,
          promise, orgGot, peopleGot, scrapeGot, overtaken, mfVal, mfEvidence, mfResult, mfpc,
          parsed, discovered, dpc, verifier, discoveryLeads, selectedProspect, passes,
          requested, pipeline, vault, lastPass, hostInput, normalized, renormalized, npc,
          reply, caller, extracted, returned, xpc, heap, mergeArgs, mergeOut, hpc>>

\* Everything but one machine's own variables.
pureVars == <<domainVars, extractVars, heapVars>>
machineVars == <<keyVars, scanVars, fieldVars, discoveryVars, verifyVars>>
otherThanKeys == <<scanVars, fieldVars, discoveryVars, verifyVars, pureVars>>
otherThanScan == <<keyVars, fieldVars, discoveryVars, verifyVars, pureVars>>
otherThanField == <<keyVars, scanVars, discoveryVars, verifyVars, pureVars>>
otherThanDiscovery == <<keyVars, scanVars, fieldVars, verifyVars, pureVars>>
otherThanVerify == <<keyVars, scanVars, fieldVars, discoveryVars, pureVars>>
otherThanDomain == <<machineVars, extractVars, heapVars>>
otherThanExtract == <<machineVars, domainVars, heapVars>>
otherThanHeap == <<machineVars, domainVars, extractVars>>

\* ------------------------------------------------------------------ resolver inputs

UpperSym(h) ==
  CASE h = "acme.com" -> "ACME.COM"
    [] h = "beta.io"  -> "BETA.IO"
    [] h = "acme"     -> "ACME"
    [] OTHER          -> h

WebsiteForms ==
  {"bare", "http", "httpsWwwSlash", "path", "query", "fragment", "padded", "all"}

\* A website string of host h: the spellings differ in scheme, www. prefix,
\* letter case, path, query, fragment and surrounding blanks.
Website(h, form) ==
  CASE form = "bare"          -> <<h>>
    [] form = "https"         -> <<"https://", h>>
    [] form = "http"          -> <<"http://", h>>
    [] form = "www"           -> <<"www.", h>>
    [] form = "httpsWwwSlash" -> <<"https://", "www.", h, "/">>
    [] form = "upper"         -> <<"HTTPS://", "WWW.", UpperSym(h)>>
    [] form = "path"          -> <<h, "/", "about">>
    [] form = "query"         -> <<h, "?", "q=1">>
    [] form = "fragment"      -> <<h, "#", "top">>
    [] form = "padded"        -> <<" ", h, " ">>
    [] form = "all"           -> <<"HTTP://", "WWW.", UpperSym(h), "/", "about", "?", "q=1", "#", "top">>

RECURSIVE Slashes(_)
Slashes(n) == IF n = 0 THEN <<>> ELSE <<"/">> \o Slashes(n - 1)

\* An Instagram entry of handle h: bare, with a leading @, with trailing
\* slashes, in upper case, padded, or as the profile URL that
\* extractSocialLinksFromHTML and handleIncorporateSignal store.
InstagramForms(h) ==
  {<<h>>, <<"@", h>>, <<UpperSym(h)>>, <<" ", "@", h, " ">>,
   <<"https://", "instagram.com", "/", h>>}
  \cup {<<h>> \o Slashes(n) : n \in 1..MaxTrail}

\* The businesses: host, Instagram handle, name and address ("" = has none).
Businesses ==
  {[host |-> h, handle |-> g, name |-> na[1], addr |-> na[2]] :
     h \in {"", "acme.com", "beta.io"}, g \in {"", "acme", "zeta_ig"},
     na \in {<<"acme", "1 main st">>, <<"acme", "">>, <<"zeta", "1 main st">>}}

\* Name and address as typed, or in lower case with blanks around them.
NameAddressForms(n, a) ==
  IF n = "acme" /\ a # ""
    THEN {<<(<<"Acme">>), (<<"1 Main St">>)>>, <<(<<" ", "acme", " ">>), (<<" ", "1 main st">>)>>}
    ELSE IF n = "acme" THEN {<<(<<" ", "Acme">>), Empty>>}
    ELSE {<<(<<"Zeta">>), (<<"1 Main St">>)>>}

WebsitesOf(h) ==
  CASE h = ""         -> {Empty}
    [] h = "acme.com" -> {Website(h, f) : f \in WebsiteForms}
    [] OTHER          -> {Website(h, "https")}

InstagramsOf(g) ==
  CASE g = ""     -> {Empty}
    [] g = "acme" -> InstagramForms(g)
    [] OTHER      -> {<<g>>}

\* The records a business can be stored as.
RecordsOf(b) ==
  {[companyName |-> na[1], website |-> w, address |-> na[2],
    socialLinks |-> [instagram |-> ig]] :
     na \in NameAddressForms(b.name, b.addr), w \in WebsitesOf(b.host),
     ig \in InstagramsOf(b.handle)}

NoItem == [companyName |-> Empty, website |-> Empty, address |-> Empty,
           socialLinks |-> [instagram |-> Empty]]

NoTruth == [host |-> "", handle |-> "", name |-> "", addr |-> ""]

\* ------------------------------------------------------------------ resolver actions

KeysIdle ==
  /\ kpc = "idle"
  /\ item = <<NoItem, NoItem>>
  /\ truth = <<NoTruth, NoTruth>>
  /\ keys = <<Empty, Empty>>

FieldIdle ==
  /\ mfpc = "idle"
  /\ mfVal = Empty
  /\ mfEvidence = NoEvidence
  /\ mfResult = NoField

DiscoveryIdle ==
  /\ dpc = "idle"
  /\ parsed = <<>>
  /\ discovered = <<>>

DomainIdle ==
  /\ hostInput = <<>>
  /\ normalized = <<>>
  /\ renormalized = <<>>
  /\ npc = "idle"

ExtractIdle ==
  /\ reply = <<>>
  /\ caller = "none"
  /\ extracted = <<>>
  /\ returned = <<>>
  /\ xpc = "idle"

HeapIdle ==
  /\ heap = <<>>
  /\ mergeArgs = <<>>
  /\ mergeOut = 0
  /\ hpc = "idle"

\* The three single-call machines at rest.
PureIdle == DomainIdle /\ ExtractIdle /\ HeapIdle

VerifyIdle ==
  /\ verifier = "none"
  /\ discoveryLeads = <<>>
  /\ selectedProspect = <<>>
  /\ passes = <<>>
  /\ requested = 0
  /\ pipeline = <<>>
  /\ vault = <<>>
  /\ lastPass = <<>>

ScanIdle ==
  /\ variant = "none"
  /\ apolloConfigured = FALSE
  /\ phase = "idle"
  /\ mappedLeads = <<>>
  /\ firstPass = <<>>
  /\ secondPass = <<>>
  /\ promise = <<>>
  /\ orgGot = <<>>
  /\ peopleGot = <<>>
  /\ scrapeGot = <<>>
  /\ overtaken = FALSE

KeysInit ==
  /\ ScanIdle
  /\ FieldIdle
  /\ DiscoveryIdle
  /\ VerifyIdle
  /\ PureIdle
  /\ kpc = "input"
  /\ \E b1 \in Businesses, b2 \in Businesses :
       \E r1 \in RecordsOf(b1), r2 \in RecordsOf(b2) :
         /\ truth = <<b1, b2>>
         /\ item = <<r1, r2>>
  /\ keys = <<Empty, Empty>>

\* isProcessed / processedKeys: getIdentityKeys on each record.
ResolveKeys ==
  /\ kpc = "input"
  /\ keys' = [i \in 1..2 |-> getIdentityKeys(item[i])]
  /\ kpc' = "done"
  /\ UNCHANGED <<item, truth>>
  /\ UNCHANGED otherThanKeys

KeysNext == ResolveKeys

KeysSpec == KeysInit /\ [][KeysNext]_vars

KeySet(i) == {keys[i][k] : k \in 1..Len(keys[i])}

\* ------------------------------------------------------------------ claims: identity resolver

Resolved == kpc = "done"

HasNothingButName(i) ==
  /\ item[i].companyName # Empty
  /\ item[i].website = Empty
  /\ item[i].socialLinks.instagram = Empty
  /\ item[i].address = Empty

\* C7: getIdentityKeys returns at least one key for every record with a
\* non-empty company name, also when it has no website, no Instagram handle
\* and no address.
C7_KeysNeverEmpty ==
  Resolved => \A i \in 1..2 : item[i].companyName # Empty => Len(keys[i]) > 0

C7_Witness ==
  Resolved /\ \E i \in 1..2 : HasNothingButName(i) /\ Len(keys[i]) > 0

\* The keys the resolver's contract names for a record.
ContractKeys(r) ==
  LET d == normalizeDomain(r.website)
      g == normalizeSocial(r.socialLinks.instagram)
  IN (IF d # Empty THEN {<<"dom:">> \o d} ELSE {})
     \cup (IF g # Empty THEN {<<"ig:">> \o g} ELSE {})
     \cup (IF d = Empty /\ g = Empty
             THEN {<<"name:">> \o trim(toLowerCase(r.companyName)) \o <<"|">>
                     \o trim(toLowerCase(r.address))}
             ELSE {})

\* C8: the returned keys are dom:<domain> exactly when the website normalizes
\* to a domain, ig:<handle> exactly when the Instagram entry normalizes to a
\* handle, both when both exist, and the name|address key exactly when neither
\* of the two was produced; no key is returned twice.
C8_KeysAsSpecified ==
  Resolved =>
    \A i \in 1..2 :
      /\ KeySet(i) = ContractKeys(item[i])
      /\ Len(keys[i]) = Cardinality(KeySet(i))
      /\ truth[i].host # "" => <<"dom:", truth[i].host>> \in KeySet(i)
      /\ truth[i].host = "" /\ truth[i].handle = ""
           => KeySet(i) = {<<"name:", truth[i].name, "|">>
                             \o (IF truth[i].addr = "" THEN <<>> ELSE <<truth[i].addr>>)}

C8_Witness ==
  /\ Resolved
  /\ Len(keys[1]) = 2 /\ keys[1][1][1] = "dom:" /\ keys[1][2][1] = "ig:"
  /\ Len(keys[2]) = 1 /\ keys[2][1][1] = "name:"

SharesDomain == truth[1].host # "" /\ truth[1].host = truth[2].host

SharesHandle == truth[1].handle # "" /\ truth[1].handle = truth[2].handle

KeysIntersect == KeySet(1) \cap KeySet(2) # {}

\* C9: two records that share a domain or share an Instagram handle, however
\* either is spelled (profile URL included), have a key in common.
C9_SharedIdentityIntersects ==
  Resolved /\ (SharesDomain \/ SharesHandle) => KeysIntersect

SameNameAndAddress ==
  truth[1].name = truth[2].name /\ truth[1].addr = truth[2].addr

\* C10 as stated: records that share neither a domain nor a handle but have
\* the same name and address after lowercasing and trimming have a key in
\* common.
C10_AsStated ==
  Resolved /\ ~SharesDomain /\ ~SharesHandle /\ SameNameAndAddress => KeysIntersect

HasNoStrongIdentity(i) == truth[i].host = "" /\ truth[i].handle = ""

\* C10 amended: records that both have neither a domain nor an Instagram
\* handle and whose name and address are equal after lowercasing and
\* trimming have a key in common.
C10_FallbackIntersects ==
  Resolved /\ HasNoStrongIdentity(1) /\ HasNoStrongIdentity(2) /\ SameNameAndAddress
    => KeysIntersect

C10_Witness ==
  /\ Resolved
  /\ HasNoStrongIdentity(1) /\ HasNoStrongIdentity(2) /\ SameNameAndAddress
  /\ item[1].companyName # item[2].companyName
  /\ item[1].address # item[2].address
  /\ KeysIntersect

\* ------------------------------------------------------------------ deep scan inputs

NumLeads == 2

SocialEvidence ==
  [given |-> TRUE, source |-> "social", hasConfidence |-> TRUE, textConfidence |-> FALSE,
   confidence |-> 60,
   sourceUrl |-> <<"instagram.com", "/", "acme">>]

SiteEvidence ==
  [given |-> TRUE, source |-> "official_website", hasConfidence |-> FALSE,
   textConfidence |-> FALSE,
   confidence |-> 0, sourceUrl |-> <<"acme.com">>]

NoContactEvidence ==
  [website |-> NoEvidence, email |-> NoEvidence, phone |-> NoEvidence,
   address |-> NoEvidence, instagram |-> NoEvidence, linkedIn |-> NoEvidence,
   twitter |-> NoEvidence, latestSignal |-> NoEvidence]

NoRawLinks == [instagram |-> Empty, linkedIn |-> Empty, facebook |-> Empty,
               twitter |-> Empty]

\* A raw lead of the discovery response with a website and nothing else.
RawBare ==
  [companyName |-> <<"Acme">>, description |-> <<"Anvils">>, matchReasoning |-> Empty,
   website |-> <<"acme.com">>, email |-> Empty, phone |-> Empty, address |-> Empty,
   socialLinks |-> NoRawLinks,
   contactEvidence |-> [NoContactEvidence EXCEPT !.website = SiteEvidence]]

\* One with phone, email, Instagram and LinkedIn, each with evidence.
RawSocial ==
  [RawBare EXCEPT
     !.companyName = <<"Beta">>,
     !.website = <<"https://", "www.", "beta.io", "/", "about">>,
     !.email = <<"hi@beta.io">>,
     !.phone = <<" ", "555-0100">>,
     !.socialLinks = [NoRawLinks EXCEPT !.instagram = <<"@", "beta">>,
                                        !.linkedIn = <<"linkedin.com", "/", "company/beta">>],
     !.contactEvidence = [NoContactEvidence EXCEPT !.email = SiteEvidence,
                                                   !.phone = SiteEvidence,
                                                   !.instagram = SocialEvidence,
                                                   !.linkedIn = SocialEvidence]]

\* One with address, Twitter and Facebook and no evidence at all.
RawPostal ==
  [RawBare EXCEPT
     !.companyName = <<"Gamma">>,
     !.description = Empty,
     !.matchReasoning = <<"Matches the profile">>,
     !.website = <<"gamma.org">>,
     !.address = <<"1 Main St">>,
     !.socialLinks = [NoRawLinks EXCEPT !.twitter = <<"gamma_tw">>,
                                        !.facebook = <<"facebook.com", "/", "gamma">>],
     !.contactEvidence = NoContactEvidence]

\* One without a website.
RawNoSite ==
  [RawBare EXCEPT
     !.companyName = <<"Delta">>,
     !.website = Empty,
     !.phone = <<"555-0111">>,
     !.socialLinks = [NoRawLinks EXCEPT !.instagram = <<"delta">>],
     !.contactEvidence = NoContactEvidence]

RawLeads == {RawBare, RawSocial, RawPostal, RawNoSite}

OrgA ==
  [NullOrg EXCEPT !.isNull = FALSE,
                  !.phone = <<"+1 555 0199">>,
                  !.city = <<"Austin">>,
                  !.linkedin_url = <<"http://www.linkedin.com/company/org-a">>,
                  !.facebook_url = <<"https://facebook.com/org-a">>,
                  !.short_description = <<"Maker of things">>]

OrgB ==
  [NullOrg EXCEPT !.isNull = FALSE,
                  !.street_address = <<"9 Elm St">>,
                  !.city = <<"Austin">>,
                  !.country = <<"US">>,
                  !.twitter_url = <<"https://twitter.com/org_b">>]

OrganizationOutcomes ==
  {[kind |-> Thrown, organization |-> NullOrg],
   [kind |-> Answered, organization |-> NullOrg],
   [kind |-> Answered, organization |-> OrgA],
   [kind |-> Answered, organization |-> OrgB]}

PeopleA ==
  <<[email |-> <<"ceo@org.com">>, email_status |-> "verified", title |-> <<"CEO">>,
     phone_numbers |-> <<[sanitized_number |-> <<"+15550101">>],
                         [sanitized_number |-> Empty]>>,
     linkedin_url |-> <<"https://linkedin.com/in/ceo">>]>>

PeopleB ==
  <<[email |-> Empty, email_status |-> "", title |-> <<"Owner">>,
     phone_numbers |-> <<>>, linkedin_url |-> Empty],
    [email |-> <<"ops@org.com">>, email_status |-> "unverified", title |-> Empty,
     phone_numbers |-> <<[sanitized_number |-> <<"+15550102">>]>>,
     linkedin_url |-> Empty]>>

PeopleOutcomes ==
  {[kind |-> Thrown, people |-> <<>>],
   [kind |-> Answered, people |-> <<>>],
   [kind |-> Answered, people |-> PeopleA],
   [kind |-> Answered, people |-> PeopleB]}

ScrapeA ==
  [NoLinks EXCEPT !.instagram = <<"https://instagram.com/", "scraped_ig">>,
                  !.linkedIn = <<"https://linkedin.com/company/scraped">>,
                  !.youtube = <<"https://youtube.com/@scraped">>]

ScrapeB ==
  [NoLinks EXCEPT !.facebook = <<"https://facebook.com/scraped">>,
                  !.twitter = <<"https://twitter.com/scraped">>]

ScrapeOutcomes ==
  {[kind |-> Thrown, links |-> NoLinks],
   [kind |-> Answered, links |-> NoLinks],
   [kind |-> Answered, links |-> ScrapeA],
   [kind |-> Answered, links |-> ScrapeB]}

\* A slot of a Promise.all result that no promise has written yet.
NoLead == [id |-> <<"unsettled">>]

\* ------------------------------------------------------------------ deep scan

Leads == 1..Len(mappedLeads)

\* The pass a pipeline runs first and second: the gemini-helpers revision
\* enriches and then scrapes; lib/gemini.ts scrapes inside discoverProspects
\* and enriches afterwards.
FirstLayer(v) == IF v = "helpers" THEN "enrich" ELSE "scrape"
SecondLayer(v) == IF v = "helpers" THEN "scrape" ELSE "enrich"

CurrentLayer == IF phase = "first" THEN FirstLayer(variant) ELSE SecondLayer(variant)

Running == phase \in {"first", "second"}

\* The array the running pass maps over.
Input(i) == IF phase = "first" THEN mappedLeads[i] ELSE firstPass[i]

\* The early returns taken before any lookup is started.
Skips(v, layer, lead) ==
  IF layer = "enrich"
    THEN IF v = "helpers" THEN lead.website = Empty
         ELSE lead.website = Empty \/ trim(lead.website) = Empty
    ELSE IF v = "helpers" THEN lead.website = Empty
         ELSE lead.website = Empty \/ hasSocialLinks(lead)

EnrichStep(v, lead, apolloResult) ==
  IF v = "helpers" THEN enrichLeadWithApollo(lead, apolloResult)
  ELSE InlineEnrich(lead, apolloResult)

ScrapeStep(v, lead, scraped) ==
  IF v = "helpers" THEN HelperScrapeStep(lead, scraped)
  ELSE InlineScrapeStep(lead, scraped)

SettledCount == Cardinality({j \in Leads : promise[j] = "settled"})

\* The slot a promise settled as the (n+1)-th writes: its own position.
ResultSlotByCompletion(i, n) == n + 1

\* Promise.all stores each value at the index of its promise.
ResultSlot(i, n) == i

Settle(i, value) ==
  /\ promise' = [promise EXCEPT ![i] = "settled"]
  /\ overtaken' = (overtaken \/ \E j \in 1..(i - 1) : promise[j] = "pending")
  /\ IF phase = "first"
       THEN /\ firstPass' = [firstPass EXCEPT ![ResultSlot(i, SettledCount)] = value]
            /\ UNCHANGED secondPass
       ELSE /\ secondPass' = [secondPass EXCEPT ![ResultSlot(i, SettledCount)] = value]
            /\ UNCHANGED firstPass

Unsettled(n) == [i \in 1..n |-> NoLead]
AllPending(n) == [i \in 1..n |-> "pending"]
NothingGot(n) == [i \in 1..n |-> <<>>]

Init ==
  /\ KeysIdle
  /\ FieldIdle
  /\ DiscoveryIdle
  /\ VerifyIdle
  /\ PureIdle
  /\ variant \in {"helpers", "inline"}
  /\ apolloConfigured \in BOOLEAN
  /\ phase = "start"
  /\ \E n \in 1..NumLeads : \E raws \in [1..n -> RawLeads] :
       /\ mappedLeads = [i \in 1..n |-> mapRawLeadToDiscovered(raws[i], i)]
       /\ firstPass = Unsettled(n)
       /\ secondPass = Unsettled(n)
       /\ promise = AllPending(n)
       /\ orgGot = NothingGot(n)
       /\ peopleGot = NothingGot(n)
       /\ scrapeGot = NothingGot(n)
  /\ overtaken = FALSE

\* discoverProspectsDeepScan up to its first Promise.all. Without an API key
\* the standard scan is returned: the mapped leads in gemini-helpers, the
\* mapped leads after the scraping fallback in lib/gemini.ts.
StartDeepScan ==
  /\ phase = "start"
  /\ IF ~apolloConfigured /\ variant = "helpers"
       THEN /\ phase' = "done"
            /\ firstPass' = mappedLeads
            /\ secondPass' = mappedLeads
            /\ promise' = [i \in Leads |-> "settled"]
       ELSE /\ phase' = "first"
            /\ UNCHANGED <<firstPass, secondPass, promise>>
  /\ UNCHANGED <<variant, apolloConfigured, mappedLeads, orgGot, peopleGot, scrapeGot,
                 overtaken>>
  /\ UNCHANGED otherThanScan

\* A callback that returns the lead before starting a lookup.
SkipLead(i) ==
  /\ Running
  /\ promise[i] = "pending"
  /\ Skips(variant, CurrentLayer, Input(i))
  /\ Settle(i, Input(i))
  /\ UNCHANGED <<variant, apolloConfigured, phase, mappedLeads, orgGot, peopleGot, scrapeGot>>
  /\ UNCHANGED otherThanScan

Enriching(i) ==
  /\ Running
  /\ CurrentLayer = "enrich"
  /\ promise[i] = "pending"
  /\ ~Skips(variant, "enrich", Input(i))

\* enrichCompany resolves for lead i.
OrganizationReturns(i, outcome) ==
  /\ Enriching(i)
  /\ orgGot[i] = <<>>
  /\ orgGot' = [orgGot EXCEPT ![i] = <<enrichCompany(outcome)>>]
  /\ UNCHANGED <<variant, apolloConfigured, phase, mappedLeads, firstPass, secondPass,
                 promise, peopleGot, scrapeGot, overtaken>>
  /\ UNCHANGED otherThanScan

\* findDecisionMakers resolves for lead i.
PeopleReturn(i, outcome) ==
  /\ Enriching(i)
  /\ peopleGot[i] = <<>>
  /\ peopleGot' = [peopleGot EXCEPT ![i] = <<findDecisionMakers(outcome)>>]
  /\ overtaken' = (overtaken \/ orgGot[i] = <<>>)
  /\ UNCHANGED <<variant, apolloConfigured, phase, mappedLeads, firstPass, secondPass,
                 promise, orgGot, scrapeGot>>
  /\ UNCHANGED otherThanScan

\* Both lookups have resolved: fullEnrichment returns and the callback merges.
EnrichmentSettles(i) ==
  /\ Enriching(i)
  /\ orgGot[i] # <<>>
  /\ peopleGot[i] # <<>>
  /\ Settle(i, EnrichStep(variant, Input(i),
                 fullEnrichment(Input(i).website, orgGot[i][1], peopleGot[i][1])))
  /\ UNCHANGED <<variant, apolloConfigured, phase, mappedLeads, orgGot, peopleGot, scrapeGot>>
  /\ UNCHANGED otherThanScan

\* scrapeSocialLinks resolves for lead i and the callback merges.
ScrapeSettles(i, outcome) ==
  /\ Running
  /\ CurrentLayer = "scrape"
  /\ promise[i] = "pending"
  /\ ~Skips(variant, "scrape", Input(i))
  /\ LET scraped == scrapeSocialLinks(Input(i).website, outcome)
     IN /\ scrapeGot' = [scrapeGot EXCEPT ![i] = <<scraped>>]
        /\ Settle(i, ScrapeStep(variant, Input(i), scraped))
  /\ UNCHANGED <<variant, apolloConfigured, phase, mappedLeads, orgGot, peopleGot>>
  /\ UNCHANGED otherThanScan

AllSettled == \A i \in Leads : promise[i] = "settled"

\* The first Promise.all resolves; the second pass starts, or the standard
\* scan of lib/gemini.ts returns.
FirstPassDone ==
  /\ phase = "first"
  /\ AllSettled
  /\ IF apolloConfigured
       THEN /\ phase' = "second"
            /\ promise' = AllPending(Len(mappedLeads))
            /\ UNCHANGED secondPass
       ELSE /\ phase' = "done"
            /\ secondPass' = firstPass
            /\ UNCHANGED promise
  /\ UNCHANGED <<variant, apolloConfigured, mappedLeads, firstPass, orgGot, peopleGot,
                 scrapeGot, overtaken>>
  /\ UNCHANGED otherThanScan

\* The second Promise.all resolves and the deep scan returns.
SecondPassDone ==
  /\ phase = "second"
  /\ AllSettled
  /\ phase' = "done"
  /\ UNCHANGED <<variant, apolloConfigured, mappedLeads, firstPass, secondPass, promise,
                 orgGot, peopleGot, scrapeGot, overtaken>>
  /\ UNCHANGED otherThanScan

Next ==
  \/ StartDeepScan
  \/ \E i \in Leads : SkipLead(i)
  \/ \E i \in Leads : \E outcome \in OrganizationOutcomes : OrganizationReturns(i, outcome)
  \/ \E i \in Leads : \E outcome \in PeopleOutcomes : PeopleReturn(i, outcome)
  \/ \E i \in Leads : EnrichmentSettles(i)
  \/ \E i \in Leads : \E outcome \in ScrapeOutcomes : ScrapeSettles(i, outcome)
  \/ FirstPassDone
  \/ SecondPassDone

Spec == Init /\ [][Next]_vars

\* ------------------------------------------------------------------ claims: deep scan

ContactFields == {"phone", "address", "email", "linkedIn", "twitter", "facebook",
                  "instagram"}

ValueOf(lead, f) ==
  CASE f = "phone"     -> lead.phone
    [] f = "address"   -> lead.address
    [] f = "email"     -> lead.email
    [] f = "linkedIn"  -> lead.socialLinks.linkedIn
    [] f = "twitter"   -> lead.socialLinks.twitter
    [] f = "facebook"  -> lead.socialLinks.facebook
    [] f = "instagram" -> lead.socialLinks.instagram

\* The evidence record of a field. DiscoveredLead declares none for facebook,
\* and no merge writes one, so reading it gives undefined.
EvidenceOf(lead, f) ==
  CASE f = "phone"     -> lead.phoneField
    [] f = "address"   -> lead.addressField
    [] f = "email"     -> lead.emailField
    [] f = "linkedIn"  -> lead.linkedInField
    [] f = "twitter"   -> lead.twitterField
    [] f = "instagram" -> lead.instagramField
    [] f = "facebook"  -> NoField

\* What an organization offers for a field; the address is the joined one,
\* offered when there is a street address.
OrgValue(org, f) ==
  CASE f = "phone"    -> org.phone
    [] f = "address"  -> IF org.street_address # Empty
                           THEN JoinNonEmpty(<<org.street_address, org.city, org.state,
                                               org.postal_code, org.country>>)
                           ELSE Empty
    [] f = "linkedIn" -> org.linkedin_url
    [] f = "twitter"  -> org.twitter_url
    [] f = "facebook" -> org.facebook_url
    [] OTHER          -> Empty

EnrichFirst == FirstLayer(variant) = "enrich"

EnrichIn(i) == IF EnrichFirst THEN mappedLeads[i] ELSE firstPass[i]
EnrichOut(i) == IF EnrichFirst THEN firstPass[i] ELSE secondPass[i]
ScrapeIn(i) == IF EnrichFirst THEN firstPass[i] ELSE mappedLeads[i]
ScrapeOut(i) == IF EnrichFirst THEN secondPass[i] ELSE firstPass[i]

\* Lead i has left the enrichment pass with both lookups answered.
Enriched(i) ==
  /\ EnrichOut(i) # NoLead
  /\ orgGot[i] # <<>>
  /\ peopleGot[i] # <<>>

\* Lead i has left the scrape pass with the scrape answered.
Scraped(i) ==
  /\ ScrapeOut(i) # NoLead
  /\ scrapeGot[i] # <<>>

Keeps(before, after) ==
  \A f \in ContactFields :
    ValueOf(before, f) # Empty => ValueOf(after, f) = ValueOf(before, f)

\* C1: a contact field (phone, address, email, linkedIn, twitter, facebook,
\* instagram) that is non-empty before a supplemental layer has the same
\* value after it: across each pass of the deep scan, and across the
\* organization merge and the contact-person merge inside the enrichment pass.
C1_NoOverwrite ==
  \A i \in Leads :
    /\ firstPass[i] # NoLead => Keeps(mappedLeads[i], firstPass[i])
    /\ (firstPass[i] # NoLead /\ secondPass[i] # NoLead)
         => Keeps(firstPass[i], secondPass[i])
    /\ Enriched(i) =>
         LET afterOrg == OrgMerge(EnrichIn(i), orgGot[i][1], <<"Apollo.io">>)
             afterPeople == PrimaryEmailMerge(peopleGot[i][1], afterOrg, <<"Apollo.io">>)
         IN /\ Keeps(EnrichIn(i), afterOrg)
            /\ Keeps(afterOrg, afterPeople)
            /\ Keeps(afterPeople, EnrichOut(i))

\* Both layers offered a different value for a field the lead already had.
C1_Witness ==
  /\ phase = "done"
  /\ \E i \in Leads :
       /\ Enriched(i)
       /\ ValueOf(EnrichIn(i), "phone") # Empty
       /\ orgGot[i][1].phone # Empty
       /\ orgGot[i][1].phone # ValueOf(EnrichIn(i), "phone")
       /\ ValueOf(EnrichIn(i), "email") # Empty
       /\ Len(peopleGot[i][1]) > 0
       /\ peopleGot[i][1][1].email # Empty
       /\ Scraped(i)
       /\ ValueOf(ScrapeIn(i), "instagram") # Empty
       /\ scrapeGot[i][1].instagram # Empty
       /\ scrapeGot[i][1].instagram # ValueOf(ScrapeIn(i), "instagram")

ScrapedEvidenceFields == {"instagram", "linkedIn", "twitter"}

\* C2: after the scrape pass, the evidence record (instagramField,
\* linkedInField, twitterField) of every social link that held a value before
\* the scrape is identical to what it was before the scrape.
C2_ScrapeKeepsEvidence ==
  \A i \in Leads :
    Scraped(i) =>
      \A f \in ScrapedEvidenceFields :
        ValueOf(ScrapeIn(i), f) # Empty
          => EvidenceOf(ScrapeOut(i), f) = EvidenceOf(ScrapeIn(i), f)

HasEvidence(lead, f, source, confidence) ==
  /\ EvidenceOf(lead, f).source = source
  /\ EvidenceOf(lead, f).confidence = confidence

\* C3: a field among phone, address, linkedIn, twitter and facebook that is
\* empty in the lead and offered by the organization ends up with that value
\* and evidence directory / 0.9; a social link that is empty before the scrape
\* and offered by it ends up with the scraped value and evidence
\* official_website / 0.85.
C3_FilledWithEvidence ==
  \A i \in Leads :
    /\ (Enriched(i) /\ ~orgGot[i][1].isNull) =>
         \A f \in {"phone", "address", "linkedIn", "twitter", "facebook"} :
           (ValueOf(EnrichIn(i), f) = Empty /\ OrgValue(orgGot[i][1], f) # Empty)
             => /\ ValueOf(EnrichOut(i), f) = OrgValue(orgGot[i][1], f)
                /\ HasEvidence(EnrichOut(i), f, "directory", ApolloOrgConfidence)
    /\ Scraped(i) =>
         \A f \in {"instagram", "linkedIn", "twitter", "facebook"} :
           (ValueOf(ScrapeIn(i), f) = Empty /\ scrapeGot[i][1][f] # Empty)
             => /\ ValueOf(ScrapeOut(i), f) = scrapeGot[i][1][f]
                /\ HasEvidence(ScrapeOut(i), f, "official_website", ScraperConfidence)

\* C4: in a scan that applies both layers, no lead is scraped before its
\* enrichment has been merged, and a link that discovery left empty and the
\* organization offers ends up with the organization's value.
C4_EnrichmentBeforeScrape ==
  apolloConfigured =>
    \A i \in Leads :
      /\ scrapeGot[i] # <<>> => EnrichOut(i) # NoLead
      /\ (phase = "done" /\ Enriched(i) /\ ~orgGot[i][1].isNull) =>
           \A f \in {"linkedIn", "twitter", "facebook"} :
             (ValueOf(mappedLeads[i], f) = Empty /\ OrgValue(orgGot[i][1], f) # Empty)
               => ValueOf(secondPass[i], f) = OrgValue(orgGot[i][1], f)

GotOrg(i) == IF orgGot[i] = <<>> THEN NullOrg ELSE orgGot[i][1]
GotPeople(i) == IF peopleGot[i] = <<>> THEN <<>> ELSE peopleGot[i][1]
GotLinks(i) == IF scrapeGot[i] = <<>> THEN NoLinks ELSE scrapeGot[i][1]

\* What a layer makes of a lead from the data lead i's own lookups returned.
Merged(layer, lead, i) ==
  IF layer = "enrich"
    THEN EnrichStep(variant, lead, fullEnrichment(lead.website, GotOrg(i), GotPeople(i)))
    ELSE ScrapeStep(variant, lead, GotLinks(i))

ExpectedFirst(i) ==
  IF ~apolloConfigured /\ variant = "helpers" THEN mappedLeads[i]
  ELSE Merged(FirstLayer(variant), mappedLeads[i], i)

ExpectedFinal(i) ==
  IF ~apolloConfigured THEN ExpectedFirst(i)
  ELSE Merged(SecondLayer(variant), ExpectedFirst(i), i)

\* Both lookups of the enrichment came back with nothing.
EnrichFailed(i) ==
  /\ Enriched(i)
  /\ orgGot[i][1].isNull
  /\ peopleGot[i][1] = <<>>

ScrapeFailed(i) ==
  /\ Scraped(i)
  /\ scrapeGot[i][1] = NoLinks

SameBatch(before, after) ==
  /\ Len(after) = Len(before)
  /\ \A i \in 1..Len(before) : after[i].id = before[i].id

\* C5: a lead whose enrichment or scrape failed leaves that pass equal to how
\* it entered; each finished pass returns one lead per input lead in the same
\* order; every other lead holds what its own lookups make of it.
C5_FailureIsolated ==
  /\ \A i \in Leads :
       /\ EnrichFailed(i) => EnrichOut(i) = EnrichIn(i)
       /\ ScrapeFailed(i) => ScrapeOut(i) = ScrapeIn(i)
  /\ phase \in {"second", "done"} => SameBatch(mappedLeads, firstPass)
  /\ phase = "done" => SameBatch(firstPass, secondPass)
  /\ (\E i \in Leads : EnrichFailed(i) \/ ScrapeFailed(i)) =>
       \A j \in Leads :
         /\ (phase \in {"second", "done"}) => firstPass[j] = ExpectedFirst(j)
         /\ phase = "done" => secondPass[j] = ExpectedFinal(j)

\* One lead failed in both passes while its sibling was changed by both.
C5_Witness ==
  /\ phase = "done"
  /\ \E i \in Leads, j \in Leads :
       /\ i # j
       /\ EnrichFailed(i)
       /\ ScrapeFailed(i)
       /\ ValueOf(ScrapeIn(i), "instagram") # Empty
       /\ Enriched(j)
       /\ EnrichOut(j) # EnrichIn(j)
       /\ Scraped(j)
       /\ ScrapeOut(j) # ScrapeIn(j)

\* C6: the leads a deep scan returns are what each lead's own returned data
\* makes of it, whichever lookups finished first.
C6_OrderIndependent ==
  \A i \in Leads :
    /\ phase \in {"second", "done"} => firstPass[i] = ExpectedFirst(i)
    /\ phase = "done" => secondPass[i] = ExpectedFinal(i)

\* A scan of two leads, both changed by both layers, in which a lookup
\* finished before one started earlier.
C6_Witness ==
  /\ phase = "done"
  /\ overtaken
  /\ Len(mappedLeads) = NumLeads
  /\ \A i \in Leads :
       /\ Enriched(i)
       /\ Scraped(i)
       /\ firstPass[i] # mappedLeads[i]
       /\ secondPass[i] # firstPass[i]

\* ------------------------------------------------------------------ field mapper

\* The sources an evidence object of the model's answer can name.
SourceInputs == {"", "official_website", "google_business", "directory", "social",
                 "manual", "unknown", "blog"}

\* Numeric confidences in hundredths: below 0, 0, inside, 1 and above 1.
ConfidenceInputs == {-20, 0, 30, 100, 150}

\* The evidence objects JSON.parse can produce: none, or one with a source and
\* a confidence that is absent, a string, or a number.
EvidenceInputs ==
  {NoEvidence}
  \cup {[given |-> TRUE, source |-> src, hasConfidence |-> FALSE, textConfidence |-> txt,
         confidence |-> 0, sourceUrl |-> url] :
          src \in SourceInputs, txt \in BOOLEAN, url \in {Empty, <<"acme.com">>}}
  \cup {[given |-> TRUE, source |-> src, hasConfidence |-> TRUE, textConfidence |-> FALSE,
         confidence |-> c, sourceUrl |-> url] :
          src \in SourceInputs, c \in ConfidenceInputs, url \in {Empty, <<"acme.com">>}}

ValueInputs == {Empty, <<" ">>, <<"555-0100">>, <<" ", "555-0100", " ">>}

FieldInit ==
  /\ KeysIdle
  /\ ScanIdle
  /\ DiscoveryIdle
  /\ VerifyIdle
  /\ PureIdle
  /\ mfpc = "input"
  /\ mfVal \in ValueInputs
  /\ mfEvidence \in EvidenceInputs
  /\ mfResult = NoField

MapField ==
  /\ mfpc = "input"
  /\ mfResult' = mapForensicField(mfVal, mfEvidence)
  /\ mfpc' = "done"
  /\ UNCHANGED <<mfVal, mfEvidence>>
  /\ UNCHANGED otherThanField

FieldNext == MapField

FieldSpec == FieldInit /\ [][FieldNext]_vars

\* ------------------------------------------------------------------ claims: field mapper

FieldMapped == mfpc = "done"

SuppliedNumber == mfEvidence.given /\ mfEvidence.hasConfidence

\* C11: a defined result of mapForensicField has a confidence between 0 and 1
\* inclusive, whatever value and evidence it was given.
C11_ConfidenceInRange ==
  (FieldMapped /\ mfResult # NoField)
    => (mfResult.confidence >= 0 /\ mfResult.confidence <= 100)

\* An out-of-range numeric confidence was supplied and a record came back.
C11_Witness ==
  /\ FieldMapped
  /\ mfResult # NoField
  /\ SuppliedNumber
  /\ mfEvidence.confidence > 100

\* C12: without a numeric confidence the result has 0.9 for official_website
\* and google_business, 0.7 for directory, social and manual, and source
\* unknown with 0.5 for any other or missing source; a supplied number is used
\* instead (brought into [0,1]); an empty or whitespace-only value gives no
\* record.
C12_DefaultPolicy ==
  FieldMapped =>
    IF trim(mfVal) = Empty THEN mfResult = NoField
    ELSE /\ mfResult # NoField
         /\ mfResult.value = trim(mfVal)
         /\ mfResult.source =
              (IF mfEvidence.given /\ mfEvidence.source \in
                    {"official_website", "google_business", "directory", "social", "manual"}
                 THEN mfEvidence.source ELSE "unknown")
         /\ IF SuppliedNumber
              THEN mfResult.confidence =
                     (IF mfEvidence.confidence < 0 THEN 0
                      ELSE IF mfEvidence.confidence > 100 THEN 100
                      ELSE mfEvidence.confidence)
              ELSE mfResult.confidence =
                     (CASE mfResult.source \in {"official_website", "google_business"} -> 90
                        [] mfResult.source \in {"directory", "social", "manual"} -> 70
                        [] OTHER -> 50)

\* A known source without a numeric confidence was mapped.
C12_Witness ==
  /\ FieldMapped
  /\ mfResult # NoField
  /\ ~SuppliedNumber
  /\ mfEvidence.given
  /\ mfEvidence.source = "directory"
  /\ mfEvidence.textConfidence

\* ------------------------------------------------------------------ discovery

\* A raw lead whose contact fields all carry the evidence e and whose latest
\* signal carries the evidence signal.
WithEvidence(base, e, signal) ==
  [base EXCEPT !.contactEvidence =
     [website |-> e, email |-> e, phone |-> e, address |-> e, instagram |-> e,
      linkedIn |-> e, twitter |-> e, latestSignal |-> signal]]

DiscoveryInit ==
  /\ KeysIdle
  /\ ScanIdle
  /\ FieldIdle
  /\ VerifyIdle
  /\ PureIdle
  /\ dpc = "input"
  /\ \E base \in RawLeads, e \in EvidenceInputs, signal \in EvidenceInputs :
       parsed = WithEvidence(base, e, signal)
  /\ discovered = <<>>

\* results.map(raw => mapRawLeadToDiscovered(raw, groundingLinks)), one lead.
DiscoverLead ==
  /\ dpc = "input"
  /\ discovered' = mapRawLeadToDiscovered(parsed, 1)
  /\ dpc' = "done"
  /\ UNCHANGED parsed
  /\ UNCHANGED otherThanDiscovery

DiscoveryNext == DiscoverLead

DiscoverySpec == DiscoveryInit /\ [][DiscoveryNext]_vars

\* ------------------------------------------------------------------ claims: discovery

Discovered == dpc = "done"

DataSources == {"official_website", "google_business", "directory", "social", "manual",
                "unknown"}

InUnitRange(c) == c >= 0 /\ c <= 100

FieldRecords(lead) ==
  {lead.emailField, lead.phoneField, lead.addressField, lead.websiteField,
   lead.instagramField, lead.linkedInField, lead.twitterField} \ {NoField}

\* C13: on a lead built by discovery every per-field evidence record and
\* latestSignalEvidence has a confidence within [0,1] and a source among the
\* six enum values, and every ContactIntelligence entry has a confidence
\* within [0,1].
C13_DiscoveredEvidenceWellFormed ==
  Discovered =>
    /\ \A r \in FieldRecords(discovered) :
         InUnitRange(r.confidence) /\ r.source \in DataSources
    /\ discovered.latestSignalEvidence # NoSignalEvidence =>
         /\ discovered.latestSignalEvidence.numeric
         /\ InUnitRange(discovered.latestSignalEvidence.confidence)
         /\ discovered.latestSignalEvidence.source \in DataSources
    /\ \A k \in 1..Len(discovered.enrichedContacts) :
         InUnitRange(discovered.enrichedContacts[k].confidence)

\* ------------------------------------------------------------------ claims: evidence and contact points

\* The leads a scan holds at this moment: the mapped ones and every settled
\* slot of the two passes.
HeldLeads ==
  {mappedLeads[i] : i \in Leads}
  \cup ({firstPass[i] : i \in Leads} \ {NoLead})
  \cup ({secondPass[i] : i \in Leads} \ {NoLead})

RawValueOf(r, f) ==
  CASE f = "phone"     -> r.phone
    [] f = "address"   -> r.address
    [] f = "email"     -> r.email
    [] f = "linkedIn"  -> r.socialLinks.linkedIn
    [] f = "twitter"   -> r.socialLinks.twitter
    [] f = "facebook"  -> r.socialLinks.facebook
    [] f = "instagram" -> r.socialLinks.instagram

\* C14: every non-empty contact field of a lead (email, phone, address,
\* website, each social link, facebook included) has an evidence record, after
\* discovery and after every merge layer; and a field that arrived without
\* evidence metadata has the record unknown / 0.5.
C14_EveryFieldHasEvidence ==
  /\ \A lead \in HeldLeads :
       /\ lead.website # Empty => lead.websiteField # NoField
       /\ \A f \in ContactFields :
            ValueOf(lead, f) # Empty => EvidenceOf(lead, f) # NoField
  /\ \A i \in Leads : \A r \in RawLeads :
       mappedLeads[i] = mapRawLeadToDiscovered(r, i) =>
         \A f \in ContactFields \ {"facebook"} :
           (trim(RawValueOf(r, f)) # Empty /\ ~r.contactEvidence[f].given)
             => HasEvidence(mappedLeads[i], f, "unknown", UnknownConfidence)

ContactTypes(contacts) == {contacts[k].type : k \in 1..Len(contacts)}

OnePrimaryPerType(contacts) ==
  \A t \in ContactTypes(contacts) :
    LET ofType == {k \in 1..Len(contacts) : contacts[k].type = t}
        first == CHOOSE k \in ofType : \A j \in ofType : k <= j
    IN \A k \in ofType : contacts[k].isPrimary <=> (k = first)

\* C15: in a lead's ContactIntelligence list, after discovery and after
\* contact-person enrichment, each type present has exactly one primary entry,
\* the first entry of that type.
C15_OnePrimaryPerType ==
  \A lead \in HeldLeads : OnePrimaryPerType(lead.enrichedContacts)

\* The people merge ran for lead i: the enrichment succeeded with people.
PeopleMerged(i) ==
  /\ Enriched(i)
  /\ Len(peopleGot[i][1]) > 0

\* C16: contact-person enrichment sets the scalar email and its evidence
\* record only when the email was empty and the person at index 0 has an
\* email; otherwise email and emailField stay as they were; the people's
\* contact points are appended after the existing entries.
C16_PrimaryEmailOnly ==
  \A i \in Leads :
    PeopleMerged(i) =>
      LET before == EnrichIn(i)
          after == EnrichOut(i)
          people == peopleGot[i][1]
          kept == Len(before.enrichedContacts)
      IN /\ IF before.email = Empty /\ people[1].email # Empty
              THEN /\ after.email = people[1].email
                   /\ after.emailField.value = people[1].email
                   /\ after.emailField.source = "directory"
              ELSE /\ after.email = before.email
                   /\ after.emailField = before.emailField
         /\ Len(after.enrichedContacts) >= kept
         /\ SubSeq(after.enrichedContacts, 1, kept) = before.enrichedContacts
         /\ SubSeq(after.enrichedContacts, kept + 1, Len(after.enrichedContacts))
              = PeopleContacts(people, 1)

\* One lead got its email from the person at index 0; another, without an
\* email, met people whose first person has none while a later one has.
C16_Witness ==
  /\ \E i \in Leads :
       /\ PeopleMerged(i)
       /\ EnrichIn(i).email = Empty
       /\ EnrichOut(i).email # Empty
       /\ EnrichIn(i).enrichedContacts # <<>>
  /\ \E i \in Leads :
       /\ PeopleMerged(i)
       /\ EnrichIn(i).email = Empty
       /\ peopleGot[i][1][1].email = Empty
       /\ \E k \in 2..Len(peopleGot[i][1]) : peopleGot[i][1][k].email # Empty

\* ------------------------------------------------------------------ verification

MaxPasses == 2
MaxSponsors == 1
MaxVault == 1

\* An object without keys.
EmptyObject == [k \in {} |-> Empty]

\* {...a, ...b}: every own key of b replaces a's, also when its value is
\* undefined or null.
Spread(a, b) ==
  [k \in DOMAIN a \cup DOMAIN b |-> IF k \in DOMAIN b THEN b[k] ELSE a[k]]

ScrapedKeys == {"instagram", "facebook", "twitter", "linkedIn", "youtube", "tiktok"}

\* An object read through the six keys of ScrapedSocialLinks.
AsLinks(obj) == [k \in ScrapedKeys |-> Get(obj, k)]

\* correctedData without any entry; hasSocialLinks tells whether the
\* socialLinks key is there.
NoCorrected == [website |-> Empty, email |-> Empty, hasSocialLinks |-> FALSE,
                socialLinks |-> EmptyObject]

\* null
NullResult == [isNull |-> TRUE, status |-> "", hasCorrectedData |-> FALSE,
               correctedData |-> NoCorrected]

\* {}: an object without status and without correctedData.
BareResult == [NullResult EXCEPT !.isNull = FALSE]

Unparsable == "unparsable"

\* extractJson on the answer's text: the parsed value, null when no attempt
\* parses.
ParsedAnswer(answer) ==
  IF answer.kind = Unparsable THEN NullResult ELSE answer.value

\* verifyLeadForensically from the answer of the model on: null when the call
\* throws; in the scraping revision correctedData.socialLinks is replaced by
\* the merge with the scraped links whenever correctedData is there.
verifyLeadForensically(v, scraped, answer) ==
  IF answer.kind = Thrown THEN NullResult
  ELSE LET geminiResult == ParsedAnswer(answer) IN
       IF v = "scraping" /\ ~geminiResult.isNull /\ geminiResult.hasCorrectedData
         THEN [geminiResult EXCEPT
                 !.correctedData.hasSocialLinks = TRUE,
                 !.correctedData.socialLinks =
                    mergeSocialLinks(AsLinks(geminiResult.correctedData.socialLinks),
                                     scraped)]
         ELSE geminiResult

\* result.correctedData?.socialLinks as an object to spread.
CorrectedLinks(result) ==
  IF result.hasCorrectedData /\ result.correctedData.hasSocialLinks
    THEN result.correctedData.socialLinks ELSE EmptyObject

CorrectedValue(result, f) ==
  IF ~result.hasCorrectedData THEN Empty
  ELSE IF f = "website" THEN result.correctedData.website
  ELSE IF f = "email" THEN result.correctedData.email
  ELSE Get(CorrectedLinks(result), f)

\* updatedLead of handleVerifyLead; verificationReasoning and
\* forensicAuditTrail are texts carried along and left out.
UpdatedLead(lead, result) ==
  [lead EXCEPT
     !.verificationStatus = result.status,
     !.website = Or(CorrectedValue(result, "website"), lead.website),
     !.email = Or(CorrectedValue(result, "email"), lead.email),
     !.socialLinks = Spread(lead.socialLinks, CorrectedLinks(result))]

\* The leads handleVerifyLead hands to onUpdateLeads once the result is in:
\* the list of the render the call was started from, with the lead replaced.
LeadsAfter(pass, result) ==
  IF ~result.isNull
    THEN [pass.currentLeads EXCEPT ![pass.leadIndex] = UpdatedLead(pass.lead, result)]
    ELSE [pass.currentLeads EXCEPT ![pass.leadIndex].verificationStatus = "FAILED"]

\* syncForensicDossierFromLead on one incorporated sponsor.
SyncEntry(entry, updatedLead) ==
  IF entry.sourceLeadId # updatedLead.id THEN entry
  ELSE [entry EXCEPT
          !.dossierStatus = updatedLead.verificationStatus,
          !.website = Or(updatedLead.website, entry.website),
          !.email = Or(updatedLead.email, entry.email),
          !.socialLinks = Spread(entry.socialLinks, updatedLead.socialLinks)]

syncForensicDossierFromLead(entries, updatedLead) ==
  [k \in 1..Len(entries) |-> SyncEntry(entries[k], updatedLead)]

\* onAddAsLead: the sponsor and the dossier of its deal.
SponsorOf(lead) ==
  [sourceLeadId |-> lead.id,
   dossierStatus |-> lead.verificationStatus,
   companyName |-> lead.companyName,
   website |-> lead.website,
   email |-> lead.email,
   address |-> lead.address,
   socialLinks |-> lead.socialLinks]

KeysOf(it) == LET ks == getIdentityKeys(it) IN {ks[k] : k \in 1..Len(ks)}

processedKeys ==
  UNION ({KeysOf(pipeline[k]) : k \in 1..Len(pipeline)}
         \cup {KeysOf(vault[k]) : k \in 1..Len(vault)})

isProcessed(lead) == KeysOf(lead) \cap processedKeys # {}

\* No call in this slot.
NoPass == [leadIndex |-> 0]

InFlight == {p \in 1..Len(passes) : passes[p] # NoPass}

CorrectedSite ==
  [NoCorrected EXCEPT !.website = <<"https://", "corrected.com", "/">>,
                      !.email = <<"fixed@corrected.com">>]

CorrectedHandle ==
  [NoCorrected EXCEPT !.hasSocialLinks = TRUE,
                      !.socialLinks = [instagram |-> <<"corrected_ig">>]]

ResultOf(status, corrected) ==
  [isNull |-> FALSE, status |-> status, hasCorrectedData |-> TRUE,
   correctedData |-> corrected]

\* The objects the model's answer can parse to.
ParsedResults ==
  {BareResult,
   [BareResult EXCEPT !.status = "VERIFIED"],
   [BareResult EXCEPT !.status = "FAILED"],
   ResultOf("VERIFIED", CorrectedSite),
   ResultOf("VERIFIED", CorrectedHandle),
   ResultOf("COLLISION_DETECTED", CorrectedHandle)}

VerifierAnswers ==
  {[kind |-> Thrown, value |-> NullResult], [kind |-> Unparsable, value |-> NullResult]}
  \cup {[kind |-> Answered, value |-> r] : r \in ParsedResults}

\* The lead lists a verification starts from.
VerifyBatches == {<<RawSocial, RawBare>>, <<RawPostal, RawNoSite>>}

NoLastPass == [serial |-> 0]

VerifyInit ==
  /\ KeysIdle
  /\ ScanIdle
  /\ FieldIdle
  /\ DiscoveryIdle
  /\ PureIdle
  /\ verifier \in {"scraping", "plain"}
  /\ \E raws \in VerifyBatches :
       discoveryLeads = [i \in 1..Len(raws) |-> mapRawLeadToDiscovered(raws[i], i)]
  /\ selectedProspect = <<>>
  /\ passes = [p \in 1..MaxPasses |-> NoPass]
  /\ requested = 0
  /\ pipeline = <<>>
  /\ vault = <<>>
  /\ lastPass = NoLastPass

IndexOf(lead) == CHOOSE i \in 1..Len(discoveryLeads) : discoveryLeads[i].id = lead.id

\* handleVerifyLead up to its await: the lead is marked VERIFYING in the list
\* of the current render and the call keeps that list and that lead.
StartVerification(i) ==
  /\ requested < MaxPasses
  /\ requested' = requested + 1
  /\ discoveryLeads' = [discoveryLeads EXCEPT ![i].verificationStatus = "VERIFYING"]
  /\ passes' = [passes EXCEPT ![requested + 1] =
                  [leadIndex |-> i,
                   currentLeads |-> discoveryLeads,
                   lead |-> discoveryLeads[i],
                   stage |-> IF verifier = "scraping" /\ discoveryLeads[i].website # Empty
                               THEN "scrape" ELSE "ask",
                   scraped |-> NoLinks]]
  /\ UNCHANGED <<verifier, pipeline, vault, lastPass>>
  /\ UNCHANGED otherThanVerify

\* A click on a card opens the dossier dialog with that lead.
SelectProspect(i) ==
  /\ selectedProspect = <<>>
  /\ selectedProspect' = <<discoveryLeads[i]>>
  /\ UNCHANGED <<verifier, discoveryLeads, passes, requested, pipeline, vault, lastPass>>
  /\ UNCHANGED otherThanVerify

CloseProspect ==
  /\ selectedProspect # <<>>
  /\ selectedProspect' = <<>>
  /\ UNCHANGED <<verifier, discoveryLeads, passes, requested, pipeline, vault, lastPass>>
  /\ UNCHANGED otherThanVerify

\* The Verify button of a card.
VerifyFromCard(i) ==
  /\ selectedProspect = <<>>
  /\ discoveryLeads[i].verificationStatus \notin {"VERIFIED", "COLLISION_DETECTED", "VERIFYING"}
  /\ ~isProcessed(discoveryLeads[i])
  /\ StartVerification(i)
  /\ UNCHANGED selectedProspect

\* The Verify First button of the dialog, enabled by the lead as it was when
\* the dialog was opened.
VerifyFromDialog ==
  /\ selectedProspect # <<>>
  /\ selectedProspect[1].verificationStatus \notin {"VERIFIED", "VERIFYING"}
  /\ ~isProcessed(selectedProspect[1])
  /\ StartVerification(IndexOf(selectedProspect[1]))
  /\ UNCHANGED selectedProspect

\* The Incorporate button of a card.
IncorporateFromCard(i) ==
  /\ selectedProspect = <<>>
  /\ Len(pipeline) < MaxSponsors
  /\ ~isProcessed(discoveryLeads[i])
  /\ discoveryLeads[i].verificationStatus # "VERIFYING"
  /\ pipeline' = Append(pipeline, SponsorOf(discoveryLeads[i]))
  /\ UNCHANGED <<verifier, discoveryLeads, selectedProspect, passes, requested, vault, lastPass>>
  /\ UNCHANGED otherThanVerify

\* The Incorporate Prospect button of the dialog.
IncorporateFromDialog ==
  /\ selectedProspect # <<>>
  /\ Len(pipeline) < MaxSponsors
  /\ ~isProcessed(selectedProspect[1])
  /\ selectedProspect[1].verificationStatus # "VERIFYING"
  /\ pipeline' = Append(pipeline, SponsorOf(selectedProspect[1]))
  /\ selectedProspect' = <<>>
  /\ UNCHANGED <<verifier, discoveryLeads, passes, requested, vault, lastPass>>
  /\ UNCHANGED otherThanVerify

\* The To Vault button of a card.
VaultFromCard(i) ==
  /\ selectedProspect = <<>>
  /\ Len(vault) < MaxVault
  /\ ~isProcessed(discoveryLeads[i])
  /\ discoveryLeads[i].verificationStatus # "VERIFYING"
  /\ vault' = Append(vault, discoveryLeads[i])
  /\ UNCHANGED <<verifier, discoveryLeads, selectedProspect, passes, requested, pipeline,
                 lastPass>>
  /\ UNCHANGED otherThanVerify

\* The Save to Vault button of the dialog.
VaultFromDialog ==
  /\ selectedProspect # <<>>
  /\ Len(vault) < MaxVault
  /\ ~isProcessed(selectedProspect[1])
  /\ selectedProspect[1].verificationStatus # "VERIFYING"
  /\ vault' = Append(vault, selectedProspect[1])
  /\ selectedProspect' = <<>>
  /\ UNCHANGED <<verifier, discoveryLeads, passes, requested, pipeline, lastPass>>
  /\ UNCHANGED otherThanVerify

\* scrapeSocialLinks resolves inside verifyLeadForensically.
VerifyScrapeReturns(p, outcome) ==
  /\ p \in InFlight
  /\ passes[p].stage = "scrape"
  /\ passes' = [passes EXCEPT
                  ![p].stage = "ask",
                  ![p].scraped = scrapeSocialLinks(passes[p].lead.website, outcome)]
  /\ UNCHANGED <<verifier, discoveryLeads, selectedProspect, requested, pipeline, vault, lastPass>>
  /\ UNCHANGED otherThanVerify

\* The model answers; verifyLeadForensically returns and handleVerifyLead
\* writes the leads and, with a result, syncs the dossiers.
VerifierReturns(p, answer) ==
  /\ p \in InFlight
  /\ passes[p].stage = "ask"
  /\ LET pass == passes[p]
         result == verifyLeadForensically(verifier, pass.scraped, answer)
     IN /\ discoveryLeads' = LeadsAfter(pass, result)
        /\ pipeline' = IF result.isNull THEN pipeline
                       ELSE syncForensicDossierFromLead(pipeline,
                                                        UpdatedLead(pass.lead, result))
        /\ lastPass' = [serial |-> lastPass.serial + 1,
                        leadIndex |-> pass.leadIndex,
                        result |-> result,
                        scraped |-> pass.scraped,
                        seen |-> pass.lead,
                        parsed |-> IF answer.kind = Thrown THEN NullResult
                                   ELSE ParsedAnswer(answer)]
  /\ passes' = [passes EXCEPT ![p] = NoPass]
  /\ UNCHANGED <<verifier, selectedProspect, requested, vault>>
  /\ UNCHANGED otherThanVerify

VerifyNext ==
  \/ \E i \in 1..Len(discoveryLeads) : SelectProspect(i)
  \/ CloseProspect
  \/ \E i \in 1..Len(discoveryLeads) : VerifyFromCard(i)
  \/ VerifyFromDialog
  \/ \E i \in 1..Len(discoveryLeads) : IncorporateFromCard(i)
  \/ IncorporateFromDialog
  \/ \E i \in 1..Len(discoveryLeads) : VaultFromCard(i)
  \/ VaultFromDialog
  \/ \E p \in 1..MaxPasses : \E outcome \in ScrapeOutcomes : VerifyScrapeReturns(p, outcome)
  \/ \E p \in 1..MaxPasses : \E answer \in VerifierAnswers : VerifierReturns(p, answer)

VerifySpec == VerifyInit /\ [][VerifyNext]_vars

\* ---- claims: verification ----

LeadIndexes == 1..Len(discoveryLeads)

VerificationStatuses ==
  {"PENDING", "VERIFYING", "VERIFIED", "FAILED", "COLLISION_DETECTED"}

TerminalStatuses == {"VERIFIED", "FAILED", "COLLISION_DETECTED"}

\* This step is a verification request for lead i.
RequestedFor(i) ==
  /\ requested' = requested + 1
  /\ passes'[requested'].leadIndex = i

\* This step is the completion of a verification pass.
PassCompletes == lastPass'.serial = lastPass.serial + 1

AllowedStatusChange(i) ==
  LET a == discoveryLeads[i].verificationStatus
      b == discoveryLeads'[i].verificationStatus
  IN \/ a = b
     \/ a = "PENDING" /\ b = "VERIFYING"
     \/ a = "VERIFYING" /\ b \in TerminalStatuses
     \/ a \in TerminalStatuses /\ b = "VERIFYING" /\ RequestedFor(i)

\* C17: a lead's verificationStatus is always one of PENDING, VERIFYING,
\* VERIFIED, FAILED, COLLISION_DETECTED, and it only moves from PENDING to
\* VERIFYING, from VERIFYING to a terminal status, and from a terminal status
\* back to VERIFYING on a new request, whatever object the verifier returns.
C17_StatusLifecycle ==
  /\ [](\A i \in LeadIndexes : discoveryLeads[i].verificationStatus \in VerificationStatuses)
  /\ [][\A i \in LeadIndexes : AllowedStatusChange(i)]_vars

VerifiedFields == {"website", "email"} \cup ScrapedKeys

FieldOf(lead, f) ==
  IF f = "website" THEN lead.website
  ELSE IF f = "email" THEN lead.email
  ELSE Get(lead.socialLinks, f)

\* A pass has completed with a result; lastPass is that pass.
PassGaveResult == lastPass.serial > 0 /\ ~lastPass.result.isNull

\* C18: when the result of a verification pass provides correctedData.website,
\* correctedData.email or an entry of correctedData.socialLinks, the lead's
\* field after the pass equals the corrected value, whatever it held before.
C18_CorrectedValueWins ==
  PassGaveResult =>
    \A f \in VerifiedFields :
      CorrectedValue(lastPass.result, f) # Empty =>
        FieldOf(discoveryLeads[lastPass.leadIndex], f) = CorrectedValue(lastPass.result, f)

\* A pass corrected a website and a pass corrected a handle the lead held
\* with another value.
C18_Witness ==
  /\ PassGaveResult
  /\ \E f \in {"website", "instagram"} :
       /\ CorrectedValue(lastPass.result, f) # Empty
       /\ FieldOf(lastPass.seen, f) # Empty
       /\ FieldOf(lastPass.seen, f) # CorrectedValue(lastPass.result, f)
       /\ FieldOf(discoveryLeads[lastPass.leadIndex], f) = CorrectedValue(lastPass.result, f)

\* The value the completed pass had for field f: the corrected one, which for
\* a social link of the scraping verifier already holds the scraped one.
Provided(f) ==
  IF lastPass.result.isNull THEN Empty
  ELSE Or(CorrectedValue(lastPass.result, f),
          IF f \in ScrapedKeys THEN lastPass.scraped[f] ELSE Empty)

\* C19: a verification pass leaves unchanged every website, email and social
\* link of the lead for which neither correctedData nor the scraper provides
\* a value: the lead holds after the pass what the pass found in it.
C19_UnprovidedFieldsKept ==
  lastPass.serial > 0 =>
    \A f \in VerifiedFields :
      Provided(f) = Empty =>
        FieldOf(discoveryLeads[lastPass.leadIndex], f) = FieldOf(lastPass.seen, f)

\* This step is the completion of a pass that had no usable result.
PassFails == PassCompletes /\ lastPass'.result.isNull

\* The step starts no verification.
NoPassStarted ==
  /\ requested' = requested
  /\ \A p \in 1..MaxPasses : passes'[p] # NoPass => passes'[p] = passes[p]

\* C20: when the verification call yields no usable result (thrown error or
\* unparsable output), the lead's status becomes FAILED, its website, email
\* and social links are what they were, and no verification is started.
C20_FailureOnlyMarksFailed ==
  [][PassFails =>
       LET i == lastPass'.leadIndex IN
         /\ discoveryLeads'[i].verificationStatus = "FAILED"
         /\ \A f \in VerifiedFields :
              FieldOf(discoveryLeads'[i], f) = FieldOf(discoveryLeads[i], f)
         /\ NoPassStarted]_vars

\* emailField.value is the scalar email wherever a lead has both.
EmailRecordAgrees(lead) ==
  (lead.email # Empty /\ lead.emailField # NoField) => lead.emailField.value = lead.email

\* C21: after any sequence of discovery, enrichment and verification passes,
\* a lead that has a scalar email and an emailField has emailField.value equal
\* to the scalar email: a corrected email comes with its own evidence record.
C21_EmailRecordFollowsEmail ==
  \A i \in LeadIndexes : EmailRecordAgrees(discoveryLeads[i])

\* C27: in the result of verifyLeadForensically, when the HTML scraper and
\* the verifier's correctedData both supply a value for a social platform,
\* correctedData.socialLinks holds the scraped value.
C27_ScrapedLinkWins ==
  (lastPass.serial > 0 /\ verifier = "scraping") =>
    \A f \in ScrapedKeys :
      (CorrectedValue(lastPass.parsed, f) # Empty /\ lastPass.scraped[f] # Empty) =>
        CorrectedValue(lastPass.result, f) = lastPass.scraped[f]

\* The parts of a lead a verification writes.
VerificationView(lead) ==
  [verificationStatus |-> lead.verificationStatus,
   fields |-> [f \in VerifiedFields |-> FieldOf(lead, f)]]

\* C29: when verifications of two different leads overlap in time, the
\* completion of one changes neither the other lead's verificationStatus nor
\* its website, email and social links.
C29_OtherLeadUntouched ==
  [][PassCompletes =>
       \A j \in LeadIndexes \ {lastPass'.leadIndex} :
         VerificationView(discoveryLeads'[j]) = VerificationView(discoveryLeads[j])]_vars

\* The lead has a sponsor in the pipeline or an entry in the vault.
Incorporated(lead) == \E k \in 1..Len(pipeline) : pipeline[k].sourceLeadId = lead.id

Vaulted(lead) == \E k \in 1..Len(vault) : vault[k].id = lead.id

\* C28: once a lead has been incorporated into the pipeline or saved to the
\* vault, the processed check reports it as processed for as long as that
\* sponsor or vault entry exists, so the grid cannot take it a second time.
C28_ProcessedStaysProcessed ==
  \A i \in LeadIndexes :
    (Incorporated(discoveryLeads[i]) \/ Vaulted(discoveryLeads[i]))
      => isProcessed(discoveryLeads[i])

\* Every call that has been started returns: the scrape and the model's answer
\* are promises that settle.
VerifyFairSpec ==
  /\ VerifySpec
  /\ WF_vars(\E p \in 1..MaxPasses : \E outcome \in ScrapeOutcomes :
               VerifyScrapeReturns(p, outcome))
  /\ WF_vars(\E p \in 1..MaxPasses : \E answer \in VerifierAnswers :
               VerifierReturns(p, answer))

Verifying(i) == discoveryLeads[i].verificationStatus = "VERIFYING"

Settled(i) == discoveryLeads[i].verificationStatus \in TerminalStatuses

\* C30: every lead whose status becomes VERIFYING eventually reaches VERIFIED,
\* FAILED or COLLISION_DETECTED, also when other leads are verified in the
\* meantime, and no lead is VERIFYING once every verification call has returned.
C30_VerifyingEnds ==
  /\ [](InFlight = {} => \A i \in LeadIndexes : ~Verifying(i))
  /\ \A i \in 1..NumLeads : Verifying(i) ~> Settled(i)

\* ------------------------------------------------------------------ claims: description

IsPrefix(a, b) == Len(a) <= Len(b) /\ SubSeq(b, 1, Len(a)) = a

\* The enrichment of lead i returned an organization with a short description.
GotShortDescription(i) ==
  /\ Enriched(i)
  /\ orgGot[i][1].short_description # Empty

\* C23: whenever the enrichment API returns a short description, the merged
\* description is the previous description, a blank line, the label
\* 'Company Info: ' and the supplemental text; the previous description is a
\* prefix of the result.
C23_DescriptionAppended ==
  \A i \in Leads :
    GotShortDescription(i) =>
      LET before == EnrichIn(i).description
          after == EnrichOut(i).description
      IN /\ after = before \o <<"\n\nCompany Info: ">> \o orgGot[i][1].short_description
         /\ IsPrefix(before, after)

\* A lead with a description of its own has been merged with a short description.
C23_Witness ==
  \E i \in Leads :
    /\ GotShortDescription(i)
    /\ EnrichIn(i).description # Empty
    /\ Len(EnrichOut(i).description) > Len(EnrichIn(i).description)

\* ------------------------------------------------------------------ normalizeDomain alone

MaxWww == 2

UpperToken(c) ==
  CASE c = "http://"  -> "HTTP://"
    [] c = "https://" -> "HTTPS://"
    [] c = "www."     -> "WWW."
    [] OTHER          -> UpperSym(c)

toUpperCase(s) == [i \in DOMAIN s |-> UpperToken(s[i])]

RECURSIVE Repeated(_, _)
Repeated(c, n) == IF n = 0 THEN Empty ELSE <<c>> \o Repeated(c, n - 1)

\* Host names as they are written: a registered domain, with any number of
\* www. labels in front, behind an optional scheme, with an optional rest of
\* the URL, in either case, with or without blanks around.
HostInputs ==
  {pad \o (IF upper THEN toUpperCase(scheme \o Repeated("www.", w) \o <<h>>)
                    ELSE scheme \o Repeated("www.", w) \o <<h>>) \o rest :
     pad \in {Empty, <<" ">>},
     upper \in BOOLEAN,
     scheme \in {Empty, <<"http://">>, <<"https://">>},
     w \in 0..MaxWww,
     h \in {"acme.com", "beta.io", "com"},
     rest \in {Empty, <<"/">>, <<"/", "about">>, <<"?", "q=1">>, <<"#", "top">>, <<" ">>}}

DomainInit ==
  /\ KeysIdle
  /\ ScanIdle
  /\ FieldIdle
  /\ DiscoveryIdle
  /\ VerifyIdle
  /\ ExtractIdle
  /\ HeapIdle
  /\ hostInput \in HostInputs
  /\ normalized = <<>>
  /\ renormalized = <<>>
  /\ npc = "input"

NormalizeOnce ==
  /\ npc = "input"
  /\ normalized' = normalizeDomain(hostInput)
  /\ npc' = "once"
  /\ UNCHANGED <<hostInput, renormalized>>
  /\ UNCHANGED otherThanDomain

NormalizeAgain ==
  /\ npc = "once"
  /\ renormalized' = normalizeDomain(normalized)
  /\ npc' = "twice"
  /\ UNCHANGED <<hostInput, normalized>>
  /\ UNCHANGED otherThanDomain

DomainNext == NormalizeOnce \/ NormalizeAgain

DomainSpec == DomainInit /\ [][DomainNext]_vars

\* C26: for every host-like input x for which normalizeDomain(x) is non-null,
\* normalizeDomain(normalizeDomain(x)) equals normalizeDomain(x).
C26_NormalizeDomainIdempotent ==
  (npc = "twice" /\ normalized # Empty) => renormalized = normalized

\* ------------------------------------------------------------------ extractJson

\* A text is a sequence of lexemes: the brackets, "," , "kv" for a member
\* "key": value, "1" for a number, " " for white space, "prose" for words,
\* "~~~" for a fence of three backquotes and "json" for the tag behind it.
WhiteSpace == {" "}

NoSpace(s) == SelectSeq(s, LAMBDA c : c \notin WhiteSpace)

JsonNull == [threw |-> FALSE, isNull |-> TRUE, value |-> <<>>]

JsonThrew == [threw |-> TRUE, isNull |-> FALSE, value |-> <<>>]

JsonValue(t) == [threw |-> FALSE, isNull |-> FALSE, value |-> t]

\* The grammar of JSON over the lexemes: the index behind the value that
\* starts at i, 0 when there is none.
RECURSIVE ValueEnd(_, _), MemberListEnd(_, _), ElementListEnd(_, _)
ValueEnd(t, i) ==
  IF i > Len(t) THEN 0
  ELSE IF t[i] = "1" THEN i + 1
  ELSE IF t[i] = "{" THEN
         IF i + 1 <= Len(t) /\ t[i + 1] = "}" THEN i + 2 ELSE MemberListEnd(t, i + 1)
  ELSE IF t[i] = "[" THEN
         IF i + 1 <= Len(t) /\ t[i + 1] = "]" THEN i + 2 ELSE ElementListEnd(t, i + 1)
  ELSE 0

MemberListEnd(t, i) ==
  IF i + 1 > Len(t) \/ t[i] # "kv" THEN 0
  ELSE IF t[i + 1] = "}" THEN i + 2
  ELSE IF t[i + 1] = "," THEN MemberListEnd(t, i + 2)
  ELSE 0

ElementListEnd(t, i) ==
  LET e == ValueEnd(t, i) IN
  IF e = 0 \/ e > Len(t) THEN 0
  ELSE IF t[e] = "]" THEN e + 1
  ELSE IF t[e] = "," THEN ElementListEnd(t, e + 1)
  ELSE 0

\* JSON.parse: the value, white space dropped, or a SyntaxError.
JSONparse(text) ==
  LET t == NoSpace(text) IN
  IF t # <<>> /\ ValueEnd(t, 1) = Len(t) + 1 THEN JsonValue(t) ELSE JsonThrew

\* The exception passed on.
Rethrown(attempt, handler) == attempt

\* try { return attempt } catch { handler }
Caught(attempt, handler) == IF attempt.threw THEN handler ELSE attempt

NextSolid(s, i) ==
  LET later == {k \in (i + 1)..Len(s) : s[k] \notin WhiteSpace} IN
  IF later = {} THEN 0 ELSE CHOOSE k \in later : \A m \in later : k <= m

PrevSolid(s, j) ==
  LET earlier == {k \in 1..(j - 1) : s[k] \notin WhiteSpace} IN
  IF earlier = {} THEN 0 ELSE CHOOSE k \in earlier : \A m \in earlier : k >= m

\* The first trimmed.match of extractJson, an array of objects: from the
\* leftmost "[" that is followed by "{" to the last "]" that follows a "}".
ArrayMatch(s) ==
  LET closes(i) == {j \in (i + 1)..Len(s) :
                      /\ s[j] = "]"
                      /\ PrevSolid(s, j) > NextSolid(s, i)
                      /\ s[PrevSolid(s, j)] = "}"}
      opens == {i \in 1..Len(s) :
                  /\ s[i] = "["
                  /\ NextSolid(s, i) # 0
                  /\ s[NextSolid(s, i)] = "{"
                  /\ closes(i) # {}}
  IN IF opens = {} THEN Empty
     ELSE LET i == CHOOSE k \in opens : \A m \in opens : k <= m
              j == CHOOSE k \in closes(i) : \A m \in closes(i) : k >= m
          IN SubSeq(s, i, j)

\* The second trimmed.match of extractJson, a fenced block: what stands between
\* the first fence and the next one, without the tag and the white space.
BlockMatch(s) ==
  LET fences == {i \in 1..Len(s) : s[i] = "~~~"}
      opening == {i \in fences : \E j \in fences : j > i}
  IN IF opening = {} THEN Empty
     ELSE LET i == CHOOSE k \in opening : \A m \in opening : k <= m
              j == CHOOSE k \in fences : k > i /\ \A m \in fences : m > i => k <= m
              from == IF i + 1 < j /\ s[i + 1] = "json" THEN i + 2 ELSE i + 1
          IN trim(SubSeq(s, from, j - 1))

\* No attempt of extractJson has produced a value.
Miss == [threw |-> FALSE, isNull |-> FALSE, value |-> <<"miss">>]

extractJson(text) ==
  IF text = Empty THEN JsonNull
  ELSE LET trimmed == trim(text)
           match == ArrayMatch(trimmed)
           blockMatch == BlockMatch(trimmed)
           fromArray == IF match # Empty THEN Caught(JSONparse(match), Miss) ELSE Miss
           fromBlock == IF blockMatch # Empty
                          THEN Caught(JSONparse(trim(blockMatch)), Miss) ELSE Miss
       IN Caught(JSONparse(trimmed),
                 IF fromArray # Miss THEN fromArray
                 ELSE IF fromBlock # Miss THEN fromBlock
                 ELSE JsonNull)

\* The number of elements of a parsed array.
ElementCount(t) ==
  IF Len(t) = 2 THEN 0
  ELSE LET depth(k) == Cardinality({m \in 1..(k - 1) : t[m] \in {"[", "{"}})
                       - Cardinality({m \in 1..(k - 1) : t[m] \in {"]", "}"}})
       IN 1 + Cardinality({k \in 1..Len(t) : t[k] = "," /\ depth(k) = 1})

EmptyList == JsonValue(<<>>)

\* discoverProspects from the model's answer on: extractJson(response.text ||
\* '[]') || [], results.map(...) and the scrape of each lead, inside the try.
discoverProspects(responseText) ==
  LET got == extractJson(Or(responseText, <<"[", "]">>))
      results == IF got.threw THEN JsonThrew
                 ELSE IF got.isNull THEN JsonValue(<<"[", "]">>)
                 ELSE got
      mapped == IF results.threw THEN JsonThrew
                ELSE IF Head(results.value) # "[" THEN JsonThrew
                ELSE JsonValue([k \in 1..ElementCount(results.value) |-> "lead"])
  IN Caught(mapped, EmptyList)

\* verifyLeadForensically of src/lib/gemini.ts from the model's answer on.
verifyLeadForensicallyPlain(responseText) ==
  Caught(extractJson(Or(responseText, <<"{", "}">>)), JsonNull)

Payloads ==
  {<<"{", "kv", "}">>,
   <<"{", "kv", ",", " ", "kv", "}">>,
   <<"{", "}">>,
   <<"[", "{", "kv", "}", "]">>,
   <<"[", " ", "{", "kv", "}", ",", "{", "kv", "}", " ", "]">>,
   <<"[", "1", ",", "1", "]">>,
   <<"[", "]">>,
   <<"1">>,
   <<"{", "kv">>,
   <<"[", "{", "kv", "}">>,
   <<"[", "{", "kv", "}", ",", "]">>,
   <<"prose">>}

Wrapped(payload, wrapping) ==
  CASE wrapping = "bare"        -> payload
    [] wrapping = "padded"      -> <<" ">> \o payload \o <<" ">>
    [] wrapping = "proseBefore" -> <<"prose", " ">> \o payload
    [] wrapping = "proseAfter"  -> payload \o <<" ", "prose">>
    [] wrapping = "proseAround" -> <<"prose", " ">> \o payload \o <<" ", "prose">>
    [] wrapping = "fenced"      -> <<"~~~", " ">> \o payload \o <<" ", "~~~">>
    [] wrapping = "fencedJson"  -> <<"~~~", "json", " ">> \o payload \o <<" ", "~~~">>
    [] wrapping = "fencedProse" ->
         <<"prose", " ", "~~~", "json", " ">> \o payload \o <<" ", "~~~", " ", "prose">>
    [] wrapping = "fenceOpen"   -> <<"~~~", "json", " ">> \o payload

Wrappings ==
  {"bare", "padded", "proseBefore", "proseAfter", "proseAround", "fenced", "fencedJson",
   "fencedProse", "fenceOpen"}

\* The texts a collaborator returns.
Replies ==
  {Empty, <<" ">>,
   <<"~~~", "{", "kv", "}", "~~~", " ", "prose", " ", "[", "{", "kv", ",", "kv", "}", "]">>}
  \cup {Wrapped(payload, wrapping) : payload \in Payloads, wrapping \in Wrappings}

Callers == {"discoverProspects", "verifyLeadForensically"}

ExtractInit ==
  /\ KeysIdle
  /\ ScanIdle
  /\ FieldIdle
  /\ DiscoveryIdle
  /\ VerifyIdle
  /\ DomainIdle
  /\ HeapIdle
  /\ reply \in Replies
  /\ caller \in Callers
  /\ extracted = <<>>
  /\ returned = <<>>
  /\ xpc = "input"

DefaultText == IF caller = "discoverProspects" THEN <<"[", "]">> ELSE <<"{", "}">>

\* extractJson(response.text || default) inside the caller.
Extract ==
  /\ xpc = "input"
  /\ extracted' = extractJson(Or(reply, DefaultText))
  /\ xpc' = "extracted"
  /\ UNCHANGED <<reply, caller, returned>>
  /\ UNCHANGED otherThanExtract

\* The caller returns.
CallerReturns ==
  /\ xpc = "extracted"
  /\ returned' = IF caller = "discoverProspects" THEN discoverProspects(reply)
                 ELSE verifyLeadForensicallyPlain(reply)
  /\ xpc' = "done"
  /\ UNCHANGED <<reply, caller, extracted>>
  /\ UNCHANGED otherThanExtract

ExtractNext == Extract \/ CallerReturns

ExtractSpec == ExtractInit /\ [][ExtractNext]_vars

\* C24: for any text the collaborator returns, extractJson returns a parsed
\* value or null without throwing; when it returns null discoverProspects
\* returns an empty list and verifyLeadForensically returns null, and neither
\* raises.
C24_NeverThrows ==
  /\ xpc \in {"extracted", "done"} => ~extracted.threw /\ extracted # Miss
  /\ xpc = "done" =>
       /\ ~returned.threw
       /\ extracted.isNull =>
            IF caller = "discoverProspects" THEN returned = EmptyList
            ELSE returned = JsonNull

\* A caller has returned from a text with prose that no attempt could parse.
C24_Witness ==
  /\ xpc = "done"
  /\ \E k \in DOMAIN reply : reply[k] = "prose"
  /\ JSONparse(trim(reply)).threw
  /\ extracted.isNull

ProseOnly(s) == \A k \in DOMAIN s : s[k] \in {"prose"} \cup WhiteSpace

\* The text handed to extractJson is words, one JSON object or array from a
\* to b, and words.
WrappedInProse(text, a, b) ==
  /\ text[a] \in {"{", "["}
  /\ ~JSONparse(SubSeq(text, a, b)).threw
  /\ ProseOnly(SubSeq(text, 1, a - 1))
  /\ ProseOnly(SubSeq(text, b + 1, Len(text)))

\* C25: extractJson returns the first of its attempts that parses (direct
\* parse, fenced block, substring between the first and last bracket of the
\* kind that opens first), so a single JSON object or array wrapped in prose
\* is recovered.
C25_WrappedJsonRecovered ==
  xpc \in {"extracted", "done"} =>
    LET text == Or(reply, DefaultText) IN
    \A a \in 1..Len(text) : \A b \in a..Len(text) :
      WrappedInProse(text, a, b) => extracted = JSONparse(SubSeq(text, a, b))

\* ------------------------------------------------------------------ records in memory

\* The merge helpers of apolloEnrichment and mergeSocialLinks run on objects
\* held by reference.  heap[a] is the object at address a; a lead holds the
\* addresses of its socialLinks object and of its enrichedContacts list.
Ref(a) == [ref |-> a]

\* The addresses of the arguments before the call.
Arguments == [lead |-> 1, links |-> 2, contacts |-> 3, scraped |-> 4]

\* Object.assign(obj, extra): the same object, changed where it is.
Aliased(h, a, extra) == [heap |-> [h EXCEPT ![a] = Spread(h[a], extra)], out |-> a]

\* { ...obj, ...extra }: a new object with the own keys of obj; a value that
\* is a reference is copied as the reference.
ShallowCopy(h, a, extra) == [heap |-> Append(h, Spread(h[a], extra)), out |-> Len(h) + 1]

\* obj.k = v
Write(h, a, k, v) == [h EXCEPT ![a][k] = v]

\* [...items]: a new list
NewList(h, items) == [heap |-> Append(h, items), out |-> Len(h) + 1]

\* lead.socialLinks read through the reference
LinksOf(h, lead) == h[h[lead].socialLinks.ref]

\* enriched.socialLinks = { ...enriched.socialLinks, ...extra }, where s holds
\* the heap and the address of enriched.
ReplaceLinks(s, extra) ==
  LET c == ShallowCopy(s.heap, s.heap[s.out].socialLinks.ref, extra)
  IN [heap |-> Write(c.heap, s.out, "socialLinks", Ref(c.out)), out |-> s.out]

\* enriched[k] = v
Assigned(s, k, v) == [heap |-> Write(s.heap, s.out, k, v), out |-> s.out]

ApolloEvidence(value) == DirectoryEvidence(value, ApolloOrgConfidence, <<"Apollo.io">>)

SetPhone(s, org) ==
  IF org.phone # Empty /\ s.heap[s.out].phone = Empty
    THEN Assigned(Assigned(s, "phone", org.phone), "phoneField", ApolloEvidence(org.phone))
    ELSE s

SetAddress(s, org) ==
  LET fullAddress == JoinNonEmpty(<<org.street_address, org.city, org.state,
                                    org.postal_code, org.country>>) IN
  IF org.street_address # Empty /\ s.heap[s.out].address = Empty
    THEN Assigned(Assigned(s, "address", fullAddress), "addressField",
                  ApolloEvidence(fullAddress))
    ELSE s

SetLinkedIn(s, org) ==
  IF org.linkedin_url # Empty /\ LinksOf(s.heap, s.out).linkedIn = Empty
    THEN Assigned(ReplaceLinks(s, [linkedIn |-> org.linkedin_url,
                                   linkedin |-> org.linkedin_url]),
                  "linkedInField", ApolloEvidence(org.linkedin_url))
    ELSE s

SetTwitter(s, org) ==
  IF org.twitter_url # Empty /\ LinksOf(s.heap, s.out).twitter = Empty
    THEN Assigned(ReplaceLinks(s, [twitter |-> org.twitter_url]),
                  "twitterField", ApolloEvidence(org.twitter_url))
    ELSE s

SetFacebook(s, org) ==
  IF org.facebook_url # Empty /\ LinksOf(s.heap, s.out).facebook = Empty
    THEN ReplaceLinks(s, [facebook |-> org.facebook_url])
    ELSE s

SetDescription(s, org) ==
  IF org.short_description # Empty
    THEN Assigned(s, "description",
                  DescriptionAppended(s.heap[s.out].description, org.short_description))
    ELSE s

\* mergeApolloOrgData(lead, org) statement by statement: the copy, then the
\* six conditional assignments on it.
HeapMergeApolloOrgData(h, lead, org) ==
  SetDescription(
    SetFacebook(
      SetTwitter(
        SetLinkedIn(
          SetAddress(
            SetPhone(ShallowCopy(h, lead, EmptyObject), org), org), org), org), org), org)

\* Inside forEach: the scalar email and its record set on enrichedLead.
SetPrimaryEmail(s, people) ==
  LET merged == PrimaryEmailMerge(people, s.heap[s.out], <<"Apollo.io">>)
  IN Assigned(Assigned(s, "email", merged.email), "emailField", merged.emailField)

\* return { lead: enrichedLead, contacts: enrichedContacts }
WithContacts(s, people) ==
  LET list == NewList(s.heap, PeopleContacts(people, 1))
  IN [heap |-> list.heap, out |-> s.out, contacts |-> list.out]

\* convertApolloContacts(people, lead): the copy of the lead, and the list
\* the entries were pushed onto.
HeapConvertApolloContacts(h, people, lead) ==
  WithContacts(SetPrimaryEmail(ShallowCopy(h, lead, EmptyObject), people), people)

\* enriched = updatedLead;
\* enriched.enrichedContacts = [...(enriched.enrichedContacts || []), ...contacts]
AppendContacts(c) ==
  LET list == NewList(c.heap, c.heap[c.heap[c.out].enrichedContacts.ref] \o c.heap[c.contacts])
  IN [heap |-> Write(list.heap, c.out, "enrichedContacts", Ref(list.out)), out |-> c.out]

\* if (apolloResult.organization) enriched = mergeApolloOrgData(enriched, ...)
WithOrganization(s, apolloResult) ==
  IF ~apolloResult.organization.isNull
    THEN HeapMergeApolloOrgData(s.heap, s.out, apolloResult.organization)
    ELSE s

\* if (apolloResult.people && apolloResult.people.length > 0) ...
WithPeople(s, apolloResult) ==
  IF Len(apolloResult.people) > 0
    THEN AppendContacts(HeapConvertApolloContacts(s.heap, apolloResult.people, s.out))
    ELSE s

\* enrichLeadWithApollo(lead, fullEnrichment) once fullEnrichment has settled:
\* threw tells that it rejected, apolloResult is what it resolved with.
HeapEnrichLeadWithApollo(h, lead, threw, apolloResult) ==
  IF h[lead].website = Empty THEN [heap |-> h, out |-> lead]
  ELSE IF threw THEN [heap |-> h, out |-> lead]
  ELSE IF EnrichmentUnusable(apolloResult) THEN [heap |-> h, out |-> lead]
  ELSE WithPeople(WithOrganization([heap |-> h, out |-> lead], apolloResult), apolloResult)

\* mergeSocialLinks(existing, scraped): an object literal of six keys.
HeapMergeSocialLinks(h, existing, scraped) ==
  [heap |-> Append(h, mergeSocialLinks(h[existing], h[scraped])), out |-> Len(h) + 1]

\* A lead as the caller holds it: the record, its socialLinks object, its
\* enrichedContacts list, and the scraped links of a page.
Stored(lead, scraped) ==
  <<[lead EXCEPT !.socialLinks = Ref(Arguments.links), !.enrichedContacts = Ref(Arguments.contacts)],
    lead.socialLinks, lead.enrichedContacts, scraped>>

\* The leads of a discovery response, fresh or after one round of enrichment.
StoredLeads ==
  LET fresh == {mapRawLeadToDiscovered(raw, 1) : raw \in RawLeads} IN
  fresh \cup {enrichLeadWithApollo(lead, fullEnrichment(lead.website, OrgA, PeopleA)) :
                lead \in fresh}

HeapInit ==
  /\ KeysIdle
  /\ ScanIdle
  /\ FieldIdle
  /\ DiscoveryIdle
  /\ VerifyIdle
  /\ DomainIdle
  /\ ExtractIdle
  /\ \E lead \in StoredLeads, scraped \in {ScrapeA, ScrapeB} :
       heap = Stored(lead, scraped)
  /\ mergeArgs = [op |-> "none", before |-> heap, merging |-> FALSE]
  /\ mergeOut = 0
  /\ hpc = "input"

CallMergeApolloOrgData ==
  /\ hpc = "input"
  /\ \E org \in {OrgA, OrgB} :
       LET r == HeapMergeApolloOrgData(heap, Arguments.lead, org) IN
       /\ heap' = r.heap
       /\ mergeOut' = r.out
  /\ mergeArgs' = [mergeArgs EXCEPT !.op = "mergeApolloOrgData", !.merging = TRUE]
  /\ hpc' = "done"
  /\ UNCHANGED otherThanHeap

CallConvertApolloContacts ==
  /\ hpc = "input"
  /\ \E people \in {<<>>, PeopleA, PeopleB} :
       LET r == HeapConvertApolloContacts(heap, people, Arguments.lead) IN
       /\ heap' = r.heap
       /\ mergeOut' = r.out
  /\ mergeArgs' = [mergeArgs EXCEPT !.op = "convertApolloContacts", !.merging = TRUE]
  /\ hpc' = "done"
  /\ UNCHANGED otherThanHeap

CallEnrichLeadWithApollo ==
  /\ hpc = "input"
  /\ \E org \in {NullOrg, OrgA, OrgB}, people \in {<<>>, PeopleA, PeopleB}, threw \in BOOLEAN :
       LET apolloResult == fullEnrichment(heap[Arguments.lead].website, org, people)
           r == HeapEnrichLeadWithApollo(heap, Arguments.lead, threw, apolloResult)
       IN /\ heap' = r.heap
          /\ mergeOut' = r.out
          /\ mergeArgs' = [mergeArgs EXCEPT
                             !.op = "enrichLeadWithApollo",
                             !.merging = /\ heap[Arguments.lead].website # Empty
                                         /\ ~threw
                                         /\ apolloResult.success]
  /\ hpc' = "done"
  /\ UNCHANGED otherThanHeap

CallMergeSocialLinks ==
  /\ hpc = "input"
  /\ LET r == HeapMergeSocialLinks(heap, Arguments.links, Arguments.scraped) IN
       /\ heap' = r.heap
       /\ mergeOut' = r.out
  /\ mergeArgs' = [mergeArgs EXCEPT !.op = "mergeSocialLinks", !.merging = TRUE]
  /\ hpc' = "done"
  /\ UNCHANGED otherThanHeap

HeapNext ==
  \/ CallMergeApolloOrgData
  \/ CallConvertApolloContacts
  \/ CallEnrichLeadWithApollo
  \/ CallMergeSocialLinks

HeapSpec == HeapInit /\ [][HeapNext]_vars

\* Every object the caller passed in is what it was before the call.
InputsUnmodified ==
  \A a \in 1..Len(mergeArgs.before) : heap[a] = mergeArgs.before[a]

\* The result is an object that did not exist before the call.
ResultIsNew == mergeOut > Len(mergeArgs.before)

\* C22 as stated: after any of the four merge operations the lead passed in,
\* its socialLinks object and its enrichedContacts list are unmodified, and
\* the result is a new record.
C22_NewRecordAlways ==
  hpc = "done" => InputsUnmodified /\ ResultIsNew

\* C22: after any of the four merge operations the lead passed in, its
\* socialLinks object and its enrichedContacts list are unmodified; the result
\* is a new record whenever the operation merged, and otherwise (only
\* enrichLeadWithApollo on a lead without website, on a rejected or an
\* unsuccessful lookup) it is the very lead passed in.
C22_InputLeftUnmodified ==
  hpc = "done" =>
    /\ InputsUnmodified
    /\ mergeArgs.merging => ResultIsNew
    /\ ~mergeArgs.merging => mergeArgs.op = "enrichLeadWithApollo" /\ mergeOut = Arguments.lead

\* An enrichment that replaced the socialLinks object and extended the list.
C22_Witness ==
  /\ hpc = "done"
  /\ mergeArgs.op = "enrichLeadWithApollo"
  /\ mergeOut # Arguments.lead
  /\ heap[mergeOut].socialLinks # Ref(Arguments.links)
  /\ heap[heap[mergeOut].socialLinks.ref] # heap[Arguments.links]
  /\ Len(heap[heap[mergeOut].enrichedContacts.ref]) > Len(heap[Arguments.contacts])

====
